---- MODULE Spec2Model ----
(***************************************************************************)
(* Voltage-anomaly analysis of dmelv16/dionysus:                           *)
(*   - the threshold evaluator (efficiency.py: check_threshold,            *)
(*     check_dynamic_thresholds, check_fixed_thresholds,                   *)
(*     process_label_metrics),                                             *)
(*   - the dynamic threshold builder (efficiencyp2.py:                     *)
(*     _calculate_dynamic_thresholds, _compute_metric_thresholds),         *)
(*   - the two-pass pipeline (efficiencyp2.py: run_analysis,               *)
(*     _collect_baseline_metrics, _apply_thresholds).                      *)
(*                                                                         *)
(* Numbers.  A float is modelled in fixed point: an integer count of       *)
(* "fine units", Sub of which make one step of the fourth decimal place    *)
(* (0.0001).  round(x, 4) therefore rounds to a multiple of Sub, and two   *)
(* different numbers can round to the same 4-decimal value.                *)
(*                                                                         *)
(* Strings that the code takes apart or glues together (ofp, test_case,    *)
(* the group key) are sequences of one-character strings, so that          *)
(* f"{ofp}_{test_case}" is a concatenation and not an identity.            *)
(***************************************************************************)
EXTENDS Integers, Sequences, FiniteSets, TLC

VARIABLES
    pc,                      \* position of the modelled call / pipeline
    steady_state_thresholds, \* self.steady_state_thresholds (the fixed ThresholdSet)
    metrics,                 \* argument `metrics` of the evaluator call
    thresholds,              \* argument `thresholds` of check_dynamic_thresholds
    failed,                  \* the local `reasons` before the "all 4" rule is applied
    reasons,                 \* the list the evaluator returned
    baseline_metrics,        \* list of MetricRecords of the baseline pass
    steady_df,               \* the builder's local steady_df (rows it derives from)
    dynamic_thresholds,      \* dict group key -> ThresholdSet
    arg,                     \* the arguments of the last process_label_metrics call
    rec,                     \* what it returned: <<>> (None) or <<record>>
    rec_clean,               \* what clean.py's process_label_metrics returns for them
    data,                    \* the runs of the input table, in unique_runs order
    idx,                     \* position of the current pass in data (next run)
    all_results,             \* _apply_thresholds: all_results
    flagged_files,           \* _apply_thresholds: flagged_files (run positions)
    parquet,                 \* the table stored at BusFlipDetector.parquet_path
    df,                      \* BusFlipDetector.df: <<>> (None) or <<table>>
    sorted_df,               \* the sorted copies detect_flips_for_group made
    flips,                   \* BusFlipDetector.flips, or the list a call returned
    summary,                 \* the DataFrame get_summary returned, row by row
    error,                   \* the exception the call raised (NoError if none)
    written,                 \* the rows written to the output file (<<>> if not written)
    flagged_plots,           \* _create_flagged_plots: the (voltage_col, grouping) tuples
    plot_idx,                \* position of its loop in flagged_plots (next tuple)
    plot_counter,            \* its local plot_counter: base name -> count
    plot_names,              \* the plot names generated so far, in order
    sheet,                   \* analyze_excel_27t: the rows of the sheet
    row_idx,                 \* position of its loop in sheet (next row)
    gaps_over_2s,            \* results['gap_analysis']['gaps_over_2s'] (the gaps)
    segment_violations,      \* station_data['segment_violations']
    segment_analysis         \* results['segment_analysis']

vars == <<pc, steady_state_thresholds, metrics, thresholds, failed, reasons,
          baseline_metrics, steady_df, dynamic_thresholds, arg, rec,
          rec_clean, data, idx, all_results, flagged_files,
          parquet, df, sorted_df, flips, summary, error, written,
          flagged_plots, plot_idx, plot_counter, plot_names,
          sheet, row_idx, gaps_over_2s, segment_violations, segment_analysis>>

evalVars == <<metrics, thresholds, failed, reasons>>
buildVars == <<baseline_metrics, steady_df, dynamic_thresholds, arg, rec, rec_clean>>
pipeVars == <<data, idx, all_results, flagged_files>>
flipVars == <<parquet, df, sorted_df, flips, summary, error, written>>
plotVars == <<flagged_plots, plot_idx, plot_counter, plot_names>>
sheetVars == <<sheet, row_idx, gaps_over_2s, segment_violations, segment_analysis>>

(***************************************************************************)
(* Bounds of the model.                                                    *)
(***************************************************************************)
Sub == 2          \* fine units per 0.0001
MaxVal == 2       \* evaluator inputs range over 0..MaxVal fine units
Step == 100       \* a baseline metric value is 0 or Step fine units
MaxRecords == 5   \* longest baseline list handed to the builder

\* len(group) < 3 in _calculate_dynamic_thresholds
MinSamples == 3

(***************************************************************************)
(* Numbers                                                                 *)
(***************************************************************************)
Abs(x) == IF x < 0 THEN -x ELSE x
Max2(a, b) == IF a >= b THEN a ELSE b

\* 1.0 in fine units: 10^4 steps of the fourth decimal place.
One == 10000 * Sub

\* Python round(x, 4): to the nearest multiple of Sub, ties to the even step.
Round4(x) ==
    LET q == x \div Sub
        r == x % Sub
    IN  IF 2 * r < Sub THEN q * Sub
        ELSE IF 2 * r > Sub THEN (q + 1) * Sub
        ELSE IF q % 2 = 0 THEN q * Sub ELSE (q + 1) * Sub

(***************************************************************************)
(* ThresholdEvaluator (efficiency.py)                                      *)
(***************************************************************************)
NoReason == [metric |-> "", value |-> 0, cmp |-> "", bound |-> 0, tag |-> ""]

\* f"{metric_name} {value:.4f} < {min_threshold:.4f} (dynamic)": the two
\* numbers are printed with four decimals.
Reason(metric_name, value, cmp, bound, tag) ==
    [metric |-> metric_name, value |-> Round4(value), cmp |-> cmp,
     bound |-> Round4(bound), tag |-> tag]

check_threshold_strictness_dropped(value, min_threshold, max_threshold, metric_name) ==
    LET value_rounded == Round4(value)
        min_rounded == Round4(min_threshold)
        max_rounded == Round4(max_threshold)
    IN  IF value_rounded <= min_rounded
        THEN [failed |-> TRUE,
              reason |-> Reason(metric_name, value, "<", min_threshold, "(dynamic)")]
        ELSE IF value_rounded >= max_rounded
        THEN [failed |-> TRUE,
              reason |-> Reason(metric_name, value, ">", max_threshold, "(dynamic)")]
        ELSE [failed |-> FALSE, reason |-> NoReason]

check_threshold(value, min_threshold, max_threshold, metric_name) ==
    LET value_rounded == Round4(value)
        min_rounded == Round4(min_threshold)
        max_rounded == Round4(max_threshold)
    IN  IF value_rounded < min_rounded
        THEN [failed |-> TRUE,
              reason |-> Reason(metric_name, value, "<", min_threshold, "(dynamic)")]
        ELSE IF value_rounded > max_rounded
        THEN [failed |-> TRUE,
              reason |-> Reason(metric_name, value, ">", max_threshold, "(dynamic)")]
        ELSE [failed |-> FALSE, reason |-> NoReason]

\* The (metric_key, metric_label) pairs of check_dynamic_thresholds.
checks == << <<"variance", "Variance">>, <<"std", "Std">>,
             <<"slope", "Slope">>, <<"iqr", "IQR">> >>

\* The loop of check_dynamic_thresholds after its first k iterations: the
\* list `reasons` (failed_checks is its length).
RECURSIVE DynamicLoop(_, _, _)
DynamicLoop(m, t, k) ==
    IF k = 0 THEN <<>>
    ELSE LET before == DynamicLoop(m, t, k - 1)
             metric_key == checks[k][1]
             metric_label == checks[k][2]
             min_key == "min_" \o metric_key
             max_key == "max_" \o metric_key
         IN  IF min_key \in DOMAIN t /\ max_key \in DOMAIN t
             THEN LET res == check_threshold(m[metric_key], t[min_key],
                                             t[max_key], metric_label)
                  IN  IF res.failed THEN Append(before, res.reason) ELSE before
             ELSE before

check_dynamic_thresholds_partial_kept(m, t) ==
    DynamicLoop(m, t, Len(checks))

check_dynamic_thresholds(m, t) ==
    LET all == DynamicLoop(m, t, Len(checks))
        failed_checks == Len(all)
    IN  IF failed_checks < 4 THEN <<>> ELSE all

FixedReason(metric_name, value, bound) ==
    Reason(metric_name, value, ">", bound, "")

FixedLoop_bound_included(m, sst) ==
    LET max_iqr == IF "max_iqr" \in DOMAIN sst THEN sst["max_iqr"] ELSE One
        r1 == IF m["variance"] >= sst["max_variance"]
              THEN <<FixedReason("Variance", m["variance"], sst["max_variance"])>>
              ELSE <<>>
        r2 == IF m["std"] >= sst["max_std"]
              THEN <<FixedReason("Std", m["std"], sst["max_std"])>>
              ELSE <<>>
        r3 == IF m["abs_slope"] >= sst["max_slope"]
              THEN <<FixedReason("Slope", m["abs_slope"], sst["max_slope"])>>
              ELSE <<>>
        r4 == IF m["iqr"] >= max_iqr
              THEN <<FixedReason("IQR", m["iqr"], max_iqr)>>
              ELSE <<>>
    IN  r1 \o r2 \o r3 \o r4

\* The four `if` statements of check_fixed_thresholds, in order: the list
\* `reasons` before the "all 4" rule.
FixedLoop(m, sst) ==
    LET max_iqr == IF "max_iqr" \in DOMAIN sst THEN sst["max_iqr"] ELSE One
        r1 == IF m["variance"] > sst["max_variance"]
              THEN <<FixedReason("Variance", m["variance"], sst["max_variance"])>>
              ELSE <<>>
        r2 == IF m["std"] > sst["max_std"]
              THEN <<FixedReason("Std", m["std"], sst["max_std"])>>
              ELSE <<>>
        r3 == IF m["abs_slope"] > sst["max_slope"]
              THEN <<FixedReason("Slope", m["abs_slope"], sst["max_slope"])>>
              ELSE <<>>
        r4 == IF m["iqr"] > max_iqr
              THEN <<FixedReason("IQR", m["iqr"], max_iqr)>>
              ELSE <<>>
    IN  r1 \o r2 \o r3 \o r4

check_fixed_thresholds(m, sst) ==
    LET all == FixedLoop(m, sst)
        failed_checks == Len(all)
    IN  IF failed_checks < 4 THEN <<>> ELSE all

(***************************************************************************)
(* SpecEval: one evaluator object, one call of check_dynamic_thresholds or *)
(* check_fixed_thresholds on arguments drawn from bounded sets.            *)
(***************************************************************************)
EvalMetrics ==
    { [variance |-> a, std |-> b, slope |-> s, abs_slope |-> Abs(s), iqr |-> c] :
        a \in 0..MaxVal, b \in 0..MaxVal, s \in -1..MaxVal,
        c \in (0..MaxVal) \cup {One + 1} }

DynKeys == {"min_variance", "max_variance", "min_std", "max_std",
            "min_slope", "max_slope", "min_iqr", "max_iqr"}

IsMinKey(k) == k \in {"min_variance", "min_std", "min_slope", "min_iqr"}

\* Dynamic ThresholdSets: every min bound lo, every max bound hi (also
\* lo > hi), with at most one key absent.
DynSets ==
    { [k \in DynKeys \ miss |-> IF IsMinKey(k) THEN lo ELSE hi] :
        lo \in 0..MaxVal, hi \in 0..MaxVal,
        miss \in {{}} \cup {{k} : k \in DynKeys} }

\* Fixed ThresholdSets: max_iqr is optional (1.0 when not set).
FixedSets ==
    { [max_variance |-> f, max_std |-> f, max_slope |-> f, max_iqr |-> f] :
        f \in 0..MaxVal }
    \cup { [max_variance |-> f, max_std |-> f, max_slope |-> f] : f \in 0..MaxVal }

NoMetrics == [variance |-> 0, std |-> 0, slope |-> 0, abs_slope |-> 0, iqr |-> 0]
NoThresholds == [k \in {} |-> 0]
NoArg == [label |-> "", ofp |-> <<>>, test_case |-> <<>>, n_valid |-> 0,
          m |-> NoMetrics]

IdleBuild ==
    /\ baseline_metrics = <<>>
    /\ steady_df = <<>>
    /\ dynamic_thresholds = NoThresholds
    /\ arg = NoArg
    /\ rec = <<>>
    /\ rec_clean = <<>>

IdlePipe ==
    /\ data = <<>>
    /\ idx = 0
    /\ all_results = <<>>
    /\ flagged_files = <<>>

NoTable == [columns |-> {}, rows |-> <<>>]
NoError == [type |-> "", message |-> "", columns |-> <<>>]

IdleFlip ==
    /\ parquet = NoTable
    /\ df = <<>>
    /\ sorted_df = <<>>
    /\ flips = <<>>
    /\ summary = <<>>
    /\ error = NoError
    /\ written = <<>>

NoSegmentAnalysis ==
    [within_30s_of_start |-> <<>>, outside_30s_of_start |-> <<>>, total_violations |-> 0]

IdlePlots ==
    /\ flagged_plots = <<>>
    /\ plot_idx = 0
    /\ plot_counter = [b \in {} |-> 0]
    /\ plot_names = <<>>

IdleSheet ==
    /\ sheet = <<>>
    /\ row_idx = 0
    /\ gaps_over_2s = <<>>
    /\ segment_violations = <<>>
    /\ segment_analysis = NoSegmentAnalysis

IdleEval ==
    /\ metrics = NoMetrics
    /\ thresholds = NoThresholds
    /\ failed = <<>>
    /\ reasons = <<>>

EvalInit ==
    /\ pc = "constructed"
    /\ steady_state_thresholds \in FixedSets
    /\ IdleEval
    /\ IdleBuild
    /\ IdlePipe
    /\ IdleFlip
    /\ IdlePlots
    /\ IdleSheet

CheckDynamic ==
    /\ pc = "constructed"
    /\ \E m \in EvalMetrics, t \in DynSets :
        /\ metrics' = m
        /\ thresholds' = t
        /\ failed' = DynamicLoop(m, t, Len(checks))
        /\ reasons' = check_dynamic_thresholds(m, t)
    /\ pc' = "dynamic"
    /\ UNCHANGED flipVars
    /\ UNCHANGED <<steady_state_thresholds, buildVars, pipeVars>>
    /\ UNCHANGED <<plotVars, sheetVars>>

CheckFixed ==
    /\ pc = "constructed"
    /\ \E m \in EvalMetrics :
        /\ metrics' = m
        /\ failed' = FixedLoop(m, steady_state_thresholds)
        /\ reasons' = check_fixed_thresholds(m, steady_state_thresholds)
    /\ pc' = "fixed"
    /\ UNCHANGED flipVars
    /\ UNCHANGED <<steady_state_thresholds, thresholds, buildVars, pipeVars>>
    /\ UNCHANGED <<plotVars, sheetVars>>

EvalNext == CheckDynamic \/ CheckFixed

SpecEval == EvalInit /\ [][EvalNext]_vars

(***************************************************************************)
(* process_label_metrics (efficiency.py).  The DataFrame argument is       *)
(* reduced to what the function reads of it: the number of non-NaN         *)
(* voltage values carrying the label (n_valid) and the metrics that        *)
(* calculate_basic_metrics / calculate_slope_metrics return for them (m).  *)
(* None is the empty sequence, a returned dict a one-element sequence.     *)
(* '; '.join(flag_reasons) is kept as the list it joins: it is '' exactly  *)
(* when the list is empty.  A dict that is None or {} is the empty         *)
(* function: the code only tests its truth value.                          *)
(***************************************************************************)
GroupKey(ofp, test_case) == ofp \o <<"_">> \o test_case

MetricRow(a) ==
    [ofp |-> a.ofp, test_case |-> a.test_case, label |-> a.label,
     variance |-> a.m.variance, std |-> a.m.std, slope |-> a.m.slope,
     abs_slope |-> a.m.abs_slope, iqr |-> a.m.iqr]

WithFlags_flags_left_blank(row, flag_reasons) ==
    [ofp |-> row.ofp, test_case |-> row.test_case, label |-> row.label,
     variance |-> row.variance, std |-> row.std, slope |-> row.slope,
     abs_slope |-> row.abs_slope, iqr |-> row.iqr,
     flagged |-> flag_reasons # <<>>,
     flags |-> "",
     flag_reasons |-> flag_reasons]

WithFlags(row, flag_reasons) ==
    [ofp |-> row.ofp, test_case |-> row.test_case, label |-> row.label,
     variance |-> row.variance, std |-> row.std, slope |-> row.slope,
     abs_slope |-> row.abs_slope, iqr |-> row.iqr,
     flagged |-> flag_reasons # <<>>,
     flags |-> IF flag_reasons # <<>> THEN "all_thresholds_failed" ELSE "",
     flag_reasons |-> flag_reasons]

IsSteadyStateLabel_any(label) == TRUE

\* if label == 'steady_state'
IsSteadyStateLabel(label) == label = "steady_state"

process_label_metrics_no_guard(a, dyn, sst) ==
    << WithFlags(MetricRow(a), <<>>) >>

process_label_metrics(a, dyn, sst) ==
    IF a.n_valid = 0 THEN <<>>
    ELSE LET row == MetricRow(a)
             group_key == GroupKey(a.ofp, a.test_case)
             flag_reasons ==
                 IF IsSteadyStateLabel(a.label)
                 THEN IF DOMAIN dyn # {}
                      THEN IF group_key \in DOMAIN dyn
                           THEN check_dynamic_thresholds(row, dyn[group_key])
                           ELSE <<>>
                      ELSE check_fixed_thresholds(row, sst)
                 ELSE <<>>
         IN  << WithFlags(row, flag_reasons) >>

(***************************************************************************)
(* clean.py holds a second process_label_metrics, which calls one          *)
(* check_thresholds(metrics, thresholds, threshold_type).  That function   *)
(* is not among the source files; it is modelled from the specification    *)
(* of the ThresholdEvaluator and from the calls of it in estin.py: the     *)
(* tracked metrics are variance, std, abs_slope and iqr, values and bounds *)
(* are compared after rounding, dynamic mode needs both bounds of a metric *)
(* (else the metric is skipped), fixed mode enforces the upper bound only, *)
(* and reasons are returned only when all four metrics failed.             *)
(***************************************************************************)
tracked == << <<"variance", "Variance">>, <<"std", "Std">>,
              <<"abs_slope", "Slope">>, <<"iqr", "IQR">> >>

RECURSIVE ThresholdsLoop(_, _, _, _)
ThresholdsLoop(m, t, threshold_type, k) ==
    IF k = 0 THEN <<>>
    ELSE LET before == ThresholdsLoop(m, t, threshold_type, k - 1)
             metric_key == tracked[k][1]
             metric_label == tracked[k][2]
             min_key == "min_" \o metric_key
             max_key == "max_" \o metric_key
             value == m[metric_key]
         IN  IF threshold_type = "dynamic"
             THEN IF min_key \in DOMAIN t /\ max_key \in DOMAIN t
                  THEN LET res == check_threshold(value, t[min_key], t[max_key],
                                                  metric_label)
                       IN  IF res.failed THEN Append(before, res.reason) ELSE before
                  ELSE before
             ELSE IF max_key \in DOMAIN t /\ Round4(value) > Round4(t[max_key])
                  THEN Append(before, FixedReason(metric_label, value, t[max_key]))
                  ELSE before

check_thresholds(m, t, threshold_type) ==
    LET all == ThresholdsLoop(m, t, threshold_type, Len(tracked))
    IN  IF Len(all) < 4 THEN <<>> ELSE all

process_label_metrics_clean(a, dyn, sst) ==
    IF a.n_valid = 0 THEN <<>>
    ELSE LET row == MetricRow(a)
             group_key == GroupKey(a.ofp, a.test_case)
             thresholds_used ==
                 IF DOMAIN dyn # {}
                 THEN IF group_key \in DOMAIN dyn THEN dyn[group_key] ELSE sst
                 ELSE sst
             threshold_type == IF DOMAIN dyn # {} THEN "dynamic" ELSE "fixed"
             flag_reasons ==
                 IF a.label = "steady_state"
                 THEN check_thresholds(row, thresholds_used, threshold_type)
                 ELSE <<>>
         IN  << WithFlags(row, flag_reasons) >>

(***************************************************************************)
(* DynamicThresholdBuilder (efficiencyp2.py; yup.py holds the same code    *)
(* inline).                                                                *)
(***************************************************************************)
\* Order of one-character strings, as Python compares them.
CharCode(c) ==
    CASE c = "_" -> 95 [] c = "a" -> 97 [] c = "b" -> 98 [] c = "c" -> 99

RECURSIVE StrLess(_, _)
StrLess(s, t) ==
    IF t = <<>> THEN FALSE
    ELSE IF s = <<>> THEN TRUE
    ELSE IF CharCode(Head(s)) # CharCode(Head(t))
         THEN CharCode(Head(s)) < CharCode(Head(t))
         ELSE StrLess(Tail(s), Tail(t))

\* Order of the (ofp, test_case) tuples groupby sorts its groups by.
GroupLess(g, h) == StrLess(g[1], h[1]) \/ (g[1] = h[1] /\ StrLess(g[2], h[2]))

SteadyRows(rows) == SelectSeq(rows, LAMBDA r : r.label = "Steady State")

GroupsOf(rows) == { <<rows[i].ofp, rows[i].test_case>> : i \in DOMAIN rows }

GroupRows(rows, g) ==
    SelectSeq(rows, LAMBDA r : r.ofp = g[1] /\ r.test_case = g[2])

\* The groups of steady_df.groupby(['ofp', 'test_case']) in iteration order.
SortedGroups(rows) ==
    LET gs == GroupsOf(rows)
        n == Cardinality(gs)
    IN  CHOOSE q \in [1..n -> gs] :
            \A i \in 1..n, j \in 1..n : i < j => GroupLess(q[i], q[j])

RECURSIVE ColSum(_, _)
ColSum(group, metric) ==
    IF group = <<>> THEN 0
    ELSE Head(group)[metric] + ColSum(Tail(group), metric)

RECURSIVE ColSumSq(_, _)
ColSumSq(group, metric) ==
    IF group = <<>> THEN 0
    ELSE Head(group)[metric] * Head(group)[metric] + ColSumSq(Tail(group), metric)

\* The integer square root (largest r with r * r <= n).
RECURSIVE ISqrt(_)
ISqrt(n) ==
    IF n < 2 THEN n
    ELSE LET s == 2 * ISqrt(n \div 4)
         IN  IF (s + 1) * (s + 1) <= n THEN s + 1 ELSE s

\* group[metric].mean(), to the fine unit.
ColMean(group, metric) == ColSum(group, metric) \div Len(group)

\* group[metric].std(): the sample standard deviation (divisor n - 1), to
\* the fine unit.
ColStd(group, metric) ==
    LET n == Len(group)
        s == ColSum(group, metric)
        q == ColSumSq(group, metric)
    IN  ISqrt((n * q - s * s) \div (n * (n - 1)))

BuilderMetrics == {"variance", "std", "abs_slope", "iqr"}
BuilderKeys == { "max_" \o k : k \in BuilderMetrics } \cup { "min_" \o k : k \in BuilderMetrics }
MetricOfKey(key) == CHOOSE k \in BuilderMetrics : key \in {"max_" \o k, "min_" \o k}

compute_metric_thresholds_signs_swapped(group) ==
    [key \in BuilderKeys |->
        LET metric == MetricOfKey(key)
            mean_val == ColMean(group, metric)
            std_val == ColStd(group, metric)
        IN  IF key = "max_" \o metric
            THEN mean_val - (std_val \div 2)
            ELSE Max2(0, mean_val + (std_val \div 2))]

compute_metric_thresholds_no_clamp(group) ==
    [key \in BuilderKeys |->
        LET metric == MetricOfKey(key)
            mean_val == ColMean(group, metric)
            std_val == ColStd(group, metric)
        IN  IF key = "max_" \o metric
            THEN mean_val + (std_val \div 2)
            ELSE mean_val - (std_val \div 2)]

compute_metric_thresholds(group) ==
    [key \in BuilderKeys |->
        LET metric == MetricOfKey(key)
            mean_val == ColMean(group, metric)
            std_val == ColStd(group, metric)
        IN  IF key = "max_" \o metric
            THEN mean_val + (std_val \div 2)
            ELSE Max2(0, mean_val - (std_val \div 2))]

Put(d, k, v) == [x \in DOMAIN d \cup {k} |-> IF x = k THEN v ELSE d[x]]

\* The groupby loop of _calculate_dynamic_thresholds over the first k groups.
RECURSIVE BuilderLoop(_, _, _)
BuilderLoop(rows, gs, k) ==
    IF k = 0 THEN [x \in {} |-> 0]
    ELSE LET before == BuilderLoop(rows, gs, k - 1)
             group == GroupRows(rows, gs[k])
         IN  IF Len(group) < MinSamples THEN before
             ELSE Put(before, GroupKey(gs[k][1], gs[k][2]),
                      compute_metric_thresholds(group))

calculate_dynamic_thresholds(ms) ==
    LET rows == SteadyRows(ms)
        gs == SortedGroups(rows)
    IN  IF rows = <<>> THEN [x \in {} |-> 0]
        ELSE BuilderLoop(rows, gs, Len(gs))

(***************************************************************************)
(* SpecBuild: a list of baseline MetricRecords is collected, the builder   *)
(* derives the dynamic thresholds from it, and then one record is          *)
(* evaluated: either against the ThresholdSet of its own group             *)
(* (check_dynamic_thresholds) or through process_label_metrics with the    *)
(* derived mapping.                                                        *)
(*                                                                         *)
(* The builder reads the list only through filter / groupby / len / mean / *)
(* std, none of which depends on the order of the rows, so the lists are   *)
(* enumerated up to permutation (in non-decreasing Rank order).            *)
(***************************************************************************)
\* Three (ofp, test_case) groups; the first two have the same group key.
GroupAB_C == << <<"a", "_", "b">>, <<"c">> >>
GroupA_BC == << <<"a">>, <<"b", "_", "c">> >>
GroupA_C == << <<"a">>, <<"c">> >>
GroupSeq == <<GroupA_BC, GroupAB_C, GroupA_C>>
GroupSet == {GroupSeq[i] : i \in DOMAIN GroupSeq}

\* A value above every bound the builder can derive from the levels.
HighVal == 3 * Step

Uniform(v) == [variance |-> v, std |-> v, slope |-> -v, abs_slope |-> v, iqr |-> v]
AllLow == Uniform(0)
AllHigh == Uniform(HighVal)
ThreeHigh == [variance |-> HighVal, std |-> HighVal, slope |-> HighVal,
              abs_slope |-> HighVal, iqr |-> 0]
Profiles == {AllLow, AllHigh, ThreeHigh}

\* The fixed ThresholdSet of the analyzer in SpecBuild and Spec.
FixedSet == [max_variance |-> Step, max_std |-> Step, max_slope |-> Step,
             max_abs_slope |-> Step, max_iqr |-> Step]

BaselineRecord(g, label, v) ==
    WithFlags(MetricRow([ofp |-> g[1], test_case |-> g[2], label |-> label,
                         n_valid |-> 1, m |-> Uniform(v)]), <<>>)

BaselineKinds ==
    { BaselineRecord(g, "Steady State", v) : g \in GroupSet, v \in {0, Step} }
    \cup { BaselineRecord(g, "steady_state", 0) : g \in GroupSet }

Rank(r) ==
    LET gi == CHOOSE i \in DOMAIN GroupSeq : GroupSeq[i] = <<r.ofp, r.test_case>>
    IN  gi * 3 + (IF r.label = "Steady State" THEN r.variance \div Step ELSE 2)

ProcArgs ==
    { [label |-> l, ofp |-> g[1], test_case |-> g[2], n_valid |-> 1, m |-> p] :
        l \in {"steady_state", "Steady State", "Stabilizing"},
        g \in GroupSet, p \in Profiles }
    \cup
    { [label |-> l, ofp |-> g[1], test_case |-> g[2], n_valid |-> 0, m |-> NoMetrics] :
        l \in {"steady_state", "Steady State", "Stabilizing"}, g \in GroupSet }

\* The record of a group's own per-metric means.
MeanRecord(group) ==
    [variance |-> ColMean(group, "variance"), std |-> ColMean(group, "std"),
     slope |-> ColMean(group, "slope"), abs_slope |-> ColMean(group, "abs_slope"),
     iqr |-> ColMean(group, "iqr")]

BuildInit ==
    /\ pc = "collect"
    /\ steady_state_thresholds = FixedSet
    /\ IdleEval
    /\ IdleBuild
    /\ IdlePipe
    /\ IdleFlip
    /\ IdlePlots
    /\ IdleSheet

AddRecord ==
    /\ pc = "collect"
    /\ Len(baseline_metrics) < MaxRecords
    /\ \E r \in BaselineKinds :
        /\ IF baseline_metrics = <<>> THEN TRUE
           ELSE Rank(baseline_metrics[Len(baseline_metrics)]) <= Rank(r)
        /\ baseline_metrics' = Append(baseline_metrics, r)
    /\ UNCHANGED flipVars
    /\ UNCHANGED <<pc, steady_state_thresholds, evalVars, steady_df,
                   dynamic_thresholds, arg, rec, rec_clean, pipeVars>>
    /\ UNCHANGED <<plotVars, sheetVars>>

\* _calculate_dynamic_thresholds(baseline_metrics); run_analysis calls it
\* only with a non-empty list.
Build ==
    /\ pc = "collect"
    /\ baseline_metrics # <<>>
    /\ steady_df' = SteadyRows(baseline_metrics)
    /\ dynamic_thresholds' = calculate_dynamic_thresholds(baseline_metrics)
    /\ pc' = "built"
    /\ UNCHANGED flipVars
    /\ UNCHANGED <<steady_state_thresholds, evalVars, baseline_metrics, arg, rec,
                   rec_clean, pipeVars>>
    /\ UNCHANGED <<plotVars, sheetVars>>

\* check_dynamic_thresholds on a record of a group that has at least
\* MinSamples baseline records, against the ThresholdSet derived from it.
CheckGroupRecord ==
    /\ pc = "built"
    /\ \E g \in GroupsOf(steady_df), m \in Profiles :
        LET group == GroupRows(steady_df, g)
            t == compute_metric_thresholds(group)
        IN  /\ Len(group) >= MinSamples
            /\ metrics' = m
            /\ thresholds' = t
            /\ failed' = DynamicLoop(m, t, Len(checks))
            /\ reasons' = check_dynamic_thresholds(m, t)
    /\ pc' = "checked"
    /\ UNCHANGED flipVars
    /\ UNCHANGED <<steady_state_thresholds, buildVars, pipeVars>>
    /\ UNCHANGED <<plotVars, sheetVars>>

\* The same on the record of the group's own means.
CheckGroupMean ==
    /\ pc = "built"
    /\ \E g \in GroupsOf(steady_df) :
        LET group == GroupRows(steady_df, g)
            t == compute_metric_thresholds(group)
            m == MeanRecord(group)
        IN  /\ Len(group) >= MinSamples
            /\ metrics' = m
            /\ thresholds' = t
            /\ failed' = DynamicLoop(m, t, Len(checks))
            /\ reasons' = check_dynamic_thresholds(m, t)
    /\ pc' = "checked_mean"
    /\ UNCHANGED flipVars
    /\ UNCHANGED <<steady_state_thresholds, buildVars, pipeVars>>
    /\ UNCHANGED <<plotVars, sheetVars>>

Process ==
    /\ pc = "built"
    /\ \E a \in ProcArgs :
        /\ arg' = a
        /\ rec' = process_label_metrics(a, dynamic_thresholds, steady_state_thresholds)
        /\ rec_clean' = process_label_metrics_clean(a, dynamic_thresholds,
                                                    steady_state_thresholds)
    /\ pc' = "processed"
    /\ UNCHANGED flipVars
    /\ UNCHANGED <<steady_state_thresholds, evalVars, baseline_metrics, steady_df,
                   dynamic_thresholds, pipeVars>>
    /\ UNCHANGED <<plotVars, sheetVars>>

BuildNext == AddRecord \/ Build \/ CheckGroupRecord \/ CheckGroupMean \/ Process

SpecBuild == BuildInit /\ [][BuildNext]_vars

(***************************************************************************)
(* Spec: run_analysis (efficiencyp2.py; yup.py holds the same pipeline).   *)
(* `data` is the input partitioned by run_id, in the order of              *)
(* data['run_id'].unique(); idx is the position of the for loops.  The     *)
(* output files are not modelled.                                          *)
(*                                                                         *)
(* analyze_group is not among the source files.  It is modelled from the   *)
(* specification of the SegmentAnalysisPipeline: per run it computes one   *)
(* MetricRecord per label through process_label_metrics (a label without   *)
(* values gives none), and a failure while processing the run is an        *)
(* exception, which the callers catch.  In which of the two passes the     *)
(* call fails for a run is a property of the run (raises: a set of pass    *)
(* names).                                                                 *)
(***************************************************************************)
MaxRuns == 3      \* most runs in the input

Seg(label, n_valid, m) == [label |-> label, n_valid |-> n_valid, m |-> m]

Run(g, segs, raises) ==
    [ofp |-> g[1], test_case |-> g[2], segs |-> segs, raises |-> raises]

RunKinds ==
    { Run(GroupA_C, <<Seg("Steady State", 1, Uniform(v))>>, {}) : v \in {0, Step} }
    \cup { Run(GroupA_C, <<Seg("steady_state", 1, p), Seg("Stabilizing", 1, AllLow)>>,
               {}) : p \in {AllHigh, ThreeHigh} }
    \cup { Run(GroupA_C, <<Seg("steady_state", 0, NoMetrics)>>, {}),
           Run(GroupA_C, <<Seg("steady_state", 1, AllHigh)>>, {"baseline", "flagging"}),
           Run(GroupA_C, <<Seg("Steady State", 1, Uniform(Step))>>, {"flagging"}),
           Run(GroupAB_C, <<Seg("steady_state", 1, AllHigh)>>, {}) }

Datasets == UNION { [1..n -> RunKinds] : n \in 0..MaxRuns }

RECURSIVE AnalyzeSegs(_, _, _, _)
AnalyzeSegs(run, dyn, sst, k) ==
    IF k = 0 THEN <<>>
    ELSE AnalyzeSegs(run, dyn, sst, k - 1)
         \o process_label_metrics([label |-> run.segs[k].label, ofp |-> run.ofp,
                                    test_case |-> run.test_case,
                                    n_valid |-> run.segs[k].n_valid,
                                    m |-> run.segs[k].m], dyn, sst)

\* file_results of analyze_group(group_df, voltage_col, run_id, dynamic_thresholds)
AnalyzeGroup(run, dyn, sst) == AnalyzeSegs(run, dyn, sst, Len(run.segs))

try_extend_rows_kept(results, run, pass, file_results) ==
    results \o file_results

try_extend_first_run_only(results, run, pass, file_results) ==
    IF pass \in run.raises \/ results # <<>> THEN results ELSE results \o file_results

\* try: file_results, _ = self.analyze_group(...); results.extend(file_results)
\* except Exception: continue
try_extend(results, run, pass, file_results) ==
    IF pass \in run.raises THEN results ELSE results \o file_results

has_flagged_steady_state(results) ==
    \E i \in DOMAIN results : results[i].flagged /\ results[i].label = "Steady State"

Init ==
    /\ pc = "baseline"
    /\ steady_state_thresholds = FixedSet
    /\ data \in Datasets
    /\ idx = 1
    /\ all_results = <<>>
    /\ flagged_files = <<>>
    /\ IdleEval
    /\ IdleBuild
    /\ IdleFlip
    /\ IdlePlots
    /\ IdleSheet

\* One iteration of the loop of _collect_baseline_metrics.
CollectRun ==
    /\ pc = "baseline"
    /\ idx <= Len(data)
    /\ baseline_metrics' =
           try_extend(baseline_metrics, data[idx], "baseline",
                      AnalyzeGroup(data[idx], NoThresholds, steady_state_thresholds))
    /\ idx' = idx + 1
    /\ UNCHANGED flipVars
    /\ UNCHANGED <<pc, steady_state_thresholds, evalVars, steady_df,
                   dynamic_thresholds, arg, rec, rec_clean, data, all_results,
                   flagged_files>>
    /\ UNCHANGED <<plotVars, sheetVars>>

\* if not baseline_metrics: return pd.DataFrame()
ReturnEmpty ==
    /\ pc = "baseline"
    /\ idx > Len(data)
    /\ baseline_metrics = <<>>
    /\ pc' = "done"
    /\ UNCHANGED flipVars
    /\ UNCHANGED <<steady_state_thresholds, evalVars, buildVars, pipeVars>>
    /\ UNCHANGED <<plotVars, sheetVars>>

DeriveThresholds_early ==
    /\ pc = "baseline"
    /\ idx > 1
    /\ baseline_metrics # <<>>
    /\ steady_df' = SteadyRows(baseline_metrics)
    /\ dynamic_thresholds' = calculate_dynamic_thresholds(baseline_metrics)
    /\ pc' = "flagging"
    /\ idx' = 1
    /\ UNCHANGED flipVars
    /\ UNCHANGED <<steady_state_thresholds, evalVars, baseline_metrics, arg, rec,
                   rec_clean, data, all_results, flagged_files>>
    /\ UNCHANGED <<plotVars, sheetVars>>

\* dynamic_thresholds = self._calculate_dynamic_thresholds(baseline_metrics)
DeriveThresholds ==
    /\ pc = "baseline"
    /\ idx > Len(data)
    /\ baseline_metrics # <<>>
    /\ steady_df' = SteadyRows(baseline_metrics)
    /\ dynamic_thresholds' = calculate_dynamic_thresholds(baseline_metrics)
    /\ pc' = "flagging"
    /\ idx' = 1
    /\ UNCHANGED flipVars
    /\ UNCHANGED <<steady_state_thresholds, evalVars, baseline_metrics, arg, rec,
                   rec_clean, data, all_results, flagged_files>>
    /\ UNCHANGED <<plotVars, sheetVars>>

\* One iteration of the loop of _apply_thresholds; flagged_files keeps the
\* run ids of the appended tuples.
ApplyRun ==
    /\ pc = "flagging"
    /\ idx <= Len(data)
    /\ LET file_results == AnalyzeGroup(data[idx], dynamic_thresholds,
                                        steady_state_thresholds)
       IN  /\ all_results' = try_extend(all_results, data[idx], "flagging", file_results)
           /\ flagged_files' =
                  IF "flagging" \notin data[idx].raises
                     /\ has_flagged_steady_state(file_results)
                  THEN Append(flagged_files, idx)
                  ELSE flagged_files
    /\ idx' = idx + 1
    /\ UNCHANGED flipVars
    /\ UNCHANGED <<pc, steady_state_thresholds, evalVars, buildVars, data>>
    /\ UNCHANGED <<plotVars, sheetVars>>

\* The end of _apply_thresholds and of run_analysis: the outputs are
\* generated from results_df unless it is empty.
Finish ==
    /\ pc = "flagging"
    /\ idx > Len(data)
    /\ pc' = "done"
    /\ written' = IF all_results = <<>> THEN written ELSE <<all_results>>
    /\ UNCHANGED <<parquet, df, sorted_df, flips, summary, error>>
    /\ UNCHANGED <<steady_state_thresholds, evalVars, buildVars, pipeVars>>
    /\ UNCHANGED <<plotVars, sheetVars>>

Next == CollectRun \/ ReturnEmpty \/ DeriveThresholds \/ ApplyRun \/ Finish

Spec == Init /\ [][Next]_vars

(***************************************************************************)
(* BusFlipDetector (thoughts.py).                                          *)
(*                                                                         *)
(* A DataFrame is its set of column names and its rows; a row is a record  *)
(* with a field for every column the model knows, of which only those in   *)
(* `columns` exist.  Timestamps are whole milliseconds (time_diff_ms is    *)
(* their difference, which round(.., 3) leaves as it is); no value is      *)
(* missing (NaN).  DC states are strings, kept as sequences of             *)
(* one-character strings so that strip() and upper() act on them.          *)
(* sort_values('timestamp') uses pandas' default quicksort, which does not *)
(* fix the order of rows with equal timestamps: every order sorted by      *)
(* timestamp is a possible result.                                         *)
(***************************************************************************)
FLIP_THRESHOLD_MS == 100

REQUIRED_COLUMNS ==
    <<"unit_id", "station", "save", "bus", "timestamp", "decoded_description">>

Tick == 50        \* timestamps are 0, Tick and 2 * Tick thousandths of a second
MaxEvents == 3    \* most rows of a group handed to detect_flips_for_group

\* str.upper(), on the letters that occur in the modelled values.
UpperChar(c) ==
    CASE c = "e" -> "E" [] c = "f" -> "F" [] c = "n" -> "N" [] c = "o" -> "O"
      [] c = "r" -> "R" [] c = "s" -> "S" [] c = "t" -> "T" [] c = "u" -> "U"
      [] c = "y" -> "Y" [] OTHER -> c

Upper(s) == [i \in DOMAIN s |-> UpperChar(s[i])]

RECURSIVE LStrip(_)
LStrip(s) ==
    IF s = <<>> THEN s
    ELSE IF Head(s) = " " THEN LStrip(Tail(s)) ELSE s

RECURSIVE RStrip(_)
RStrip(s) ==
    IF s = <<>> THEN s
    ELSE IF s[Len(s)] = " " THEN RStrip(SubSeq(s, 1, Len(s) - 1)) ELSE s

\* str.strip()
Strip(s) == RStrip(LStrip(s))

\* ['1', 'TRUE', 'ON', 'YES']
ActiveTokens == { <<"1">>, <<"T", "R", "U", "E">>, <<"O", "N">>, <<"Y", "E", "S">> }

check_dc_states_first_column_only(row, columns) ==
    IF "dc1_state" \notin columns /\ "dc2_state" \notin columns THEN TRUE
    ELSE "dc1_state" \in columns /\ Upper(Strip(row.dc1_state)) \in ActiveTokens

check_dc_states(row, columns) ==
    IF "dc1_state" \notin columns /\ "dc2_state" \notin columns THEN TRUE
    ELSE LET dc1 == IF "dc1_state" \in columns
                    THEN Upper(Strip(row.dc1_state)) \in ActiveTokens
                    ELSE FALSE
             dc2 == IF "dc2_state" \in columns
                    THEN Upper(Strip(row.dc2_state)) \in ActiveTokens
                    ELSE FALSE
         IN  dc1 \/ dc2

\* The two decoded descriptions of the model.
WithType == "(1-[RT]-2)"
WithoutType == "idle"

\* re.search(r'\((\d+)-\[([^\]]+)\]-(\d+)\)', ..).group(2), or None (<<>>),
\* on the decoded descriptions of the model.
extract_message_type(decoded_desc) ==
    IF decoded_desc = WithType THEN <<"RT">> ELSE <<>>

\* The results sort_values('timestamp').reset_index(drop=True) can give.
sort_values(rows) ==
    { [i \in DOMAIN rows |-> rows[f[i]]] :
        f \in { g \in [DOMAIN rows -> DOMAIN rows] :
                  /\ \A i, j \in DOMAIN rows : g[i] = g[j] => i = j
                  /\ \A i \in DOMAIN rows :
                        i < Len(rows) => rows[g[i]].timestamp <= rows[g[i + 1]].timestamp } }

\* df['time_diff_ms'] of a row: (timestamp - prev_timestamp) * 1000.  A
\* timestamp is a number of seconds and is held here in thousandths of a
\* second, so the product is the difference of the held numbers, and it is a
\* whole number of milliseconds that round(.., 3) leaves as it is.
time_diff_ms(prev_row, curr_row) == curr_row.timestamp - prev_row.timestamp

\* flip_mask at index i of the sorted frame (1-based): for the first row the
\* shifted columns are NaN and time_diff_ms < 100 is False.
flip_mask_next_included(d, i) ==
    IF i < 2 THEN FALSE
    ELSE /\ d[i].bus # d[i - 1].bus
         /\ time_diff_ms(d[i - 1], d[i]) <= FLIP_THRESHOLD_MS
         /\ d[i].decoded_description = d[i - 1].decoded_description

flip_mask(d, i) ==
    IF i < 2 THEN FALSE
    ELSE /\ d[i].bus # d[i - 1].bus
         /\ time_diff_ms(d[i - 1], d[i]) < FLIP_THRESHOLD_MS
         /\ d[i].decoded_description = d[i - 1].decoded_description

FlipRecord_buckets_by_position(unit_id, station, save, prev_row, curr_row) ==
    [unit_id |-> unit_id, station |-> station, save |-> save,
     bus_transition |-> <<prev_row.bus, " to ", curr_row.bus>>,
     msg_type |-> extract_message_type(curr_row.decoded_description),
     timestamp_busA |-> prev_row.timestamp,
     timestamp_busB |-> curr_row.timestamp,
     timestamp_diff_ms |-> time_diff_ms(prev_row, curr_row),
     decoded_description |-> curr_row.decoded_description]

\* The dict appended to flips.
FlipRecord(unit_id, station, save, prev_row, curr_row) ==
    [unit_id |-> unit_id, station |-> station, save |-> save,
     bus_transition |-> <<prev_row.bus, " to ", curr_row.bus>>,
     msg_type |-> extract_message_type(curr_row.decoded_description),
     timestamp_busA |-> IF prev_row.bus = "A" THEN prev_row.timestamp
                        ELSE curr_row.timestamp,
     timestamp_busB |-> IF prev_row.bus = "B" THEN prev_row.timestamp
                        ELSE curr_row.timestamp,
     timestamp_diff_ms |-> time_diff_ms(prev_row, curr_row),
     decoded_description |-> curr_row.decoded_description]

\* The loop over df[flip_mask].index, up to index k of the sorted frame d.
RECURSIVE FlipsLoop(_, _, _, _, _, _)
FlipsLoop(d, columns, unit_id, station, save, k) ==
    IF k = 0 THEN <<>>
    ELSE LET before == FlipsLoop(d, columns, unit_id, station, save, k - 1)
         IN  IF ~flip_mask(d, k) THEN before
             ELSE IF ~(check_dc_states(d[k - 1], columns)
                       /\ check_dc_states(d[k], columns))
                  THEN before
                  ELSE Append(before, FlipRecord(unit_id, station, save, d[k - 1], d[k]))

\* detect_flips_for_group, given the sorted copy d that sort_values made of
\* group_df.
detect_flips_for_group(d, columns, unit_id, station, save) ==
    IF Len(d) < 2 THEN <<>>
    ELSE FlipsLoop(d, columns, unit_id, station, save, Len(d))

(***************************************************************************)
(* SpecFlipGroup: one call of detect_flips_for_group on a group of at most *)
(* MaxEvents rows, with or without the DC columns.                         *)
(***************************************************************************)
Event(unit_id, bus, timestamp, decoded, dc1, dc2) ==
    [unit_id |-> unit_id, station |-> 1, save |-> 1, bus |-> bus,
     timestamp |-> timestamp, decoded_description |-> decoded,
     dc1_state |-> dc1, dc2_state |-> dc2]

\* Raw DC states: the first three are active after strip() and upper().
DcOne == <<"1">>
DcYes == <<" ", "y", "e", "s", " ">>
DcOn == <<"O", "n">>
DcZero == <<"0">>
DcFloatOne == <<"1", ".", "0">>
DcOff == <<"o", "f", "f">>

\* The rows a group of unit u is made of: every bus at every time with the
\* typed description and both DCs active, and rows that differ from these
\* in the description or in the DC states.
EventKinds(u) ==
    { Event(u, b, k * Tick, WithType, DcOne, DcYes) : b \in {"A", "B"}, k \in 0..2 }
    \cup { Event(u, "B", Tick, WithoutType, DcOne, DcOne),
           Event(u, "A", 0, WithType, DcZero, DcOff),
           Event(u, "B", Tick, WithType, DcFloatOne, DcZero),
           Event(u, "B", Tick, WithType, DcOff, DcOn) }

GroupFrames ==
    { [columns |-> { REQUIRED_COLUMNS[i] : i \in DOMAIN REQUIRED_COLUMNS } \cup dc,
       rows |-> rows] :
        dc \in SUBSET {"dc1_state", "dc2_state"},
        rows \in UNION { [1..n -> EventKinds(1)] : n \in 0..MaxEvents } }

FlipGroupInit ==
    /\ pc = "group"
    /\ steady_state_thresholds = FixedSet
    /\ df \in { <<t>> : t \in GroupFrames }
    /\ parquet = NoTable
    /\ sorted_df = <<>>
    /\ flips = <<>>
    /\ summary = <<>>
    /\ error = NoError
    /\ written = <<>>
    /\ IdleEval
    /\ IdleBuild
    /\ IdlePipe
    /\ IdlePlots
    /\ IdleSheet

DetectFlipsForGroup ==
    /\ pc = "group"
    /\ \E d \in sort_values(df[1].rows) :
        /\ sorted_df' = <<d>>
        /\ flips' = detect_flips_for_group(d, df[1].columns, 1, 1, 1)
    /\ pc' = "group_done"
    /\ UNCHANGED <<steady_state_thresholds, evalVars, buildVars, pipeVars,
                   parquet, df, summary, error, written>>
    /\ UNCHANGED <<plotVars, sheetVars>>

FlipGroupNext == DetectFlipsForGroup

SpecFlipGroup == FlipGroupInit /\ [][FlipGroupNext]_vars

(***************************************************************************)
(* The detector object: load_data, detect_all_flips, get_summary, run      *)
(***************************************************************************)
MaxUnits == 2     \* unit ids of a table are 1..MaxUnits

\* The exceptions of the detector.
MissingColumns(cols) ==
    [type |-> "ValueError", message |-> "Missing required columns: ", columns |-> cols]

DataNotLoaded ==
    [type |-> "ValueError", message |-> "Data not loaded. Call load_data() first.",
     columns |-> <<>>]

KeyError(col) == [type |-> "KeyError", message |-> col, columns |-> <<>>]

RECURSIVE missing_cols_from(_, _)
missing_cols_from(columns, k) ==
    IF k > Len(REQUIRED_COLUMNS) THEN <<>>
    ELSE IF REQUIRED_COLUMNS[k] \notin columns
         THEN <<REQUIRED_COLUMNS[k]>> \o missing_cols_from(columns, k + 1)
         ELSE missing_cols_from(columns, k + 1)

missing_cols_first_only(columns) ==
    LET all == missing_cols_from(columns, 1)
    IN  IF all = <<>> THEN <<>> ELSE <<all[1]>>

\* [col for col in self.REQUIRED_COLUMNS if col not in self.df.columns]
missing_cols(columns) == missing_cols_from(columns, 1)

\* The keys of groupby(['unit_id', 'station', 'save']) and their order.
GroupKeyOf(row) == <<row.unit_id, row.station, row.save>>

KeyLess(a, b) ==
    \/ a[1] < b[1]
    \/ a[1] = b[1] /\ a[2] < b[2]
    \/ a[1] = b[1] /\ a[2] = b[2] /\ a[3] < b[3]

RECURSIVE SortKeys(_)
SortKeys(S) ==
    IF S = {} THEN <<>>
    ELSE LET m == CHOOSE x \in S : \A y \in S \ {x} : KeyLess(x, y)
         IN  <<m>> \o SortKeys(S \ {m})

groupby_keys(rows) == SortKeys({ GroupKeyOf(rows[i]) : i \in DOMAIN rows })

RECURSIVE RowsOfKey(_, _)
RowsOfKey(rows, key) ==
    IF rows = <<>> THEN <<>>
    ELSE IF GroupKeyOf(Head(rows)) = key
         THEN <<Head(rows)>> \o RowsOfKey(Tail(rows), key)
         ELSE RowsOfKey(Tail(rows), key)

\* The column whose lookup fails in detect_all_flips on table t, or "".
detect_key_error(t) ==
    IF "unit_id" \notin t.columns THEN "unit_id"
    ELSE IF "station" \notin t.columns THEN "station"
    ELSE IF "save" \notin t.columns THEN "save"
    ELSE IF \A i \in DOMAIN t.rows : Len(RowsOfKey(t.rows, GroupKeyOf(t.rows[i]))) < 2
         THEN ""
    ELSE IF "timestamp" \notin t.columns THEN "timestamp"
    ELSE IF "bus" \notin t.columns THEN "bus"
    ELSE IF "decoded_description" \notin t.columns THEN "decoded_description"
    ELSE ""

\* The sorted copies detect_flips_for_group can make of the groups of rows,
\* one for each key in the order of the keys.
SortedFrames(rows) ==
    LET keys == groupby_keys(rows)
        choices == UNION { sort_values(RowsOfKey(rows, keys[k])) : k \in DOMAIN keys }
    IN  { f \in [DOMAIN keys -> choices] :
            \A k \in DOMAIN keys : f[k] \in sort_values(RowsOfKey(rows, keys[k])) }

\* all_flips after the groups up to the k-th, frames being the sorted copies.
RECURSIVE all_flips(_, _, _, _)
all_flips(keys, frames, columns, k) ==
    IF k = 0 THEN <<>>
    ELSE all_flips(keys, frames, columns, k - 1)
         \o detect_flips_for_group(frames[k], columns,
                                   keys[k][1], keys[k][2], keys[k][3])

\* df_flips.groupby(['unit_id', 'station', 'save']).size().reset_index(
\* name='flip_count')
SummaryRow(key, fl) ==
    [unit_id |-> key[1], station |-> key[2], save |-> key[3],
     flip_count |-> Cardinality({ i \in DOMAIN fl : GroupKeyOf(fl[i]) = key })]

groupby_size(fl) ==
    LET keys == groupby_keys(fl)
    IN  [k \in DOMAIN keys |-> SummaryRow(keys[k], fl)]

sort_by_flip_count_ascending(rows) ==
    { [i \in DOMAIN rows |-> rows[f[i]]] :
        f \in { g \in [DOMAIN rows -> DOMAIN rows] :
                  /\ \A i, j \in DOMAIN rows : g[i] = g[j] => i = j
                  /\ \A i \in DOMAIN rows :
                        i < Len(rows) => rows[g[i]].flip_count <= rows[g[i + 1]].flip_count } }

\* The results summary.sort_values('flip_count', ascending=False) can give.
sort_by_flip_count(rows) ==
    { [i \in DOMAIN rows |-> rows[f[i]]] :
        f \in { g \in [DOMAIN rows -> DOMAIN rows] :
                  /\ \A i, j \in DOMAIN rows : g[i] = g[j] => i = j
                  /\ \A i \in DOMAIN rows :
                        i < Len(rows) => rows[g[i]].flip_count >= rows[g[i + 1]].flip_count } }

\* The tables get_summary can return for the list fl of flips.
get_summary(fl) ==
    IF fl = <<>> THEN { <<>> }
    ELSE sort_by_flip_count(groupby_size(fl))

(***************************************************************************)
(* SpecFlip: a detector on a stored table, its methods called in any order *)
(***************************************************************************)
BaseEvent(u, bus, k) == Event(u, bus, k * Tick, WithType, DcOne, DcOne)

\* The events of one unit: none, one flip, two flips, a gap of two ticks,
\* and two groups with tied timestamps.  Units after the second hold no
\* event or one flip.
UnitEvents(u) ==
    IF u > 2
    THEN { <<>>,
           <<BaseEvent(u, "A", 0), BaseEvent(u, "B", 1)>> }
    ELSE { <<>>,
           <<BaseEvent(u, "A", 0), BaseEvent(u, "B", 1)>>,
           <<BaseEvent(u, "B", 1), BaseEvent(u, "A", 2), BaseEvent(u, "A", 0)>>,
           <<BaseEvent(u, "A", 0), BaseEvent(u, "B", 2)>>,
           <<BaseEvent(u, "A", 1), BaseEvent(u, "B", 1)>>,
           <<BaseEvent(u, "A", 0), BaseEvent(u, "A", 1), BaseEvent(u, "B", 1)>> }

RECURSIVE Concat(_, _)
Concat(f, k) == IF k = 0 THEN <<>> ELSE Concat(f, k - 1) \o f[k]

Reverse(s) == [i \in DOMAIN s |-> s[Len(s) + 1 - i]]

RequiredSet == { REQUIRED_COLUMNS[i] : i \in DOMAIN REQUIRED_COLUMNS }

ValidTables ==
    { [columns |-> RequiredSet, rows |-> rows] :
        rows \in UNION { { Concat(f, MaxUnits), Reverse(Concat(f, MaxUnits)) } :
                           f \in [1..MaxUnits -> UNION { UnitEvents(u) : u \in 1..MaxUnits }]
                                 \cap { g \in [1..MaxUnits -> UNION { UnitEvents(u) : u \in 1..MaxUnits }] :
                                          \A u \in 1..MaxUnits : g[u] \in UnitEvents(u) } } }

InvalidTables ==
    { [columns |-> RequiredSet \ m, rows |-> rows] :
        m \in (SUBSET RequiredSet) \ {{}},
        rows \in { <<BaseEvent(1, "A", 0)>>,
                   <<BaseEvent(1, "A", 0), BaseEvent(1, "B", 1)>> } }

FlipInit ==
    /\ pc = "new"
    /\ steady_state_thresholds = FixedSet
    /\ parquet \in ValidTables \cup InvalidTables
    /\ df = <<>>
    /\ sorted_df = <<>>
    /\ flips = <<>>
    /\ summary = <<>>
    /\ error = NoError
    /\ written = <<>>
    /\ IdleEval
    /\ IdleBuild
    /\ IdlePipe
    /\ IdlePlots
    /\ IdleSheet

\* load_data: the table is stored in self.df before its columns are checked.
LoadData ==
    /\ pc' = "load_data"
    /\ df' = <<parquet>>
    /\ error' = IF missing_cols(parquet.columns) # <<>>
                THEN MissingColumns(missing_cols(parquet.columns))
                ELSE NoError
    /\ UNCHANGED <<steady_state_thresholds, evalVars, buildVars, pipeVars,
                   parquet, sorted_df, flips, summary, written>>
    /\ UNCHANGED <<plotVars, sheetVars>>

\* sort_values is a function of the frame it is given: on the same stored
\* table a later call sorts every group as the earlier call did.
SortedAsBefore(frames) == sorted_df # <<>> => frames = sorted_df

DetectAllFlips_unchecked ==
    /\ pc' = "detect_all_flips"
    /\ IF df = <<>>
       THEN /\ error' = NoError
            /\ flips' = <<>>
            /\ UNCHANGED sorted_df
       ELSE IF detect_key_error(df[1]) # ""
       THEN /\ error' = KeyError(detect_key_error(df[1]))
            /\ UNCHANGED <<sorted_df, flips>>
       ELSE \E frames \in SortedFrames(df[1].rows) :
            /\ SortedAsBefore(frames)
            /\ sorted_df' = frames
            /\ flips' = all_flips(groupby_keys(df[1].rows), frames, df[1].columns,
                                  Len(frames))
            /\ error' = NoError
    /\ UNCHANGED <<steady_state_thresholds, evalVars, buildVars, pipeVars,
                   parquet, df, summary, written>>
    /\ UNCHANGED <<plotVars, sheetVars>>

DetectAllFlips_appending ==
    /\ pc' = "detect_all_flips"
    /\ IF df = <<>>
       THEN /\ error' = DataNotLoaded
            /\ UNCHANGED <<sorted_df, flips>>
       ELSE IF detect_key_error(df[1]) # ""
       THEN /\ error' = KeyError(detect_key_error(df[1]))
            /\ UNCHANGED <<sorted_df, flips>>
       ELSE \E frames \in SortedFrames(df[1].rows) :
            /\ SortedAsBefore(frames)
            /\ sorted_df' = frames
            /\ flips' = flips \o all_flips(groupby_keys(df[1].rows), frames,
                                           df[1].columns, Len(frames))
            /\ error' = NoError
    /\ UNCHANGED <<steady_state_thresholds, evalVars, buildVars, pipeVars,
                   parquet, df, summary, written>>
    /\ UNCHANGED <<plotVars, sheetVars>>

\* detect_all_flips: self.flips is assigned on the last line only.
DetectAllFlips ==
    /\ pc' = "detect_all_flips"
    /\ IF df = <<>>
       THEN /\ error' = DataNotLoaded
            /\ UNCHANGED <<sorted_df, flips>>
       ELSE IF detect_key_error(df[1]) # ""
       THEN /\ error' = KeyError(detect_key_error(df[1]))
            /\ UNCHANGED <<sorted_df, flips>>
       ELSE \E frames \in SortedFrames(df[1].rows) :
            /\ SortedAsBefore(frames)
            /\ sorted_df' = frames
            /\ flips' = all_flips(groupby_keys(df[1].rows), frames, df[1].columns,
                                  Len(frames))
            /\ error' = NoError
    /\ UNCHANGED <<steady_state_thresholds, evalVars, buildVars, pipeVars,
                   parquet, df, summary, written>>
    /\ UNCHANGED <<plotVars, sheetVars>>

GetSummary ==
    /\ pc' = "get_summary"
    /\ \E s \in get_summary(flips) : summary' = <<s>>
    /\ error' = NoError
    /\ UNCHANGED <<steady_state_thresholds, evalVars, buildVars, pipeVars,
                   parquet, df, sorted_df, flips, written>>
    /\ UNCHANGED <<plotVars, sheetVars>>

\* run: load_data, detect_all_flips, get_summary, and to_csv when the
\* summary is not empty; the first exception ends the call.
RunDetector ==
    /\ pc' = "run"
    /\ df' = <<parquet>>
    /\ IF missing_cols(parquet.columns) # <<>>
       THEN /\ error' = MissingColumns(missing_cols(parquet.columns))
            /\ UNCHANGED <<sorted_df, flips, summary, written>>
       ELSE IF detect_key_error(parquet) # ""
       THEN /\ error' = KeyError(detect_key_error(parquet))
            /\ UNCHANGED <<sorted_df, flips, summary, written>>
       ELSE \E frames \in SortedFrames(parquet.rows) :
            /\ SortedAsBefore(frames)
            /\ sorted_df' = frames
            /\ flips' = all_flips(groupby_keys(parquet.rows), frames, parquet.columns,
                                  Len(frames))
            /\ \E s \in get_summary(flips') :
                /\ summary' = <<s>>
                /\ written' = IF s # <<>> THEN <<s>> ELSE written
            /\ error' = NoError
    /\ UNCHANGED <<steady_state_thresholds, evalVars, buildVars, pipeVars, parquet>>
    /\ UNCHANGED <<plotVars, sheetVars>>

FlipNext ==
    \/ LoadData
    \/ DetectAllFlips
    \/ GetSummary
    \/ RunDetector

SpecFlip == FlipInit /\ [][FlipNext]_vars

(***************************************************************************)
(* _save_thresholds and SpecSave: the builder runs on the steady-state     *)
(* records of two groups, and the threshold table is written from the      *)
(* mapping it derived.                                                     *)
(***************************************************************************)
\* The keys of the mapping in the order of their insertion by the groupby
\* loop of _calculate_dynamic_thresholds (a key assigned again keeps its
\* place).
RECURSIVE InsertedKeys(_, _, _)
InsertedKeys(rows, gs, k) ==
    IF k = 0 THEN <<>>
    ELSE LET before == InsertedKeys(rows, gs, k - 1)
             key == GroupKey(gs[k][1], gs[k][2])
         IN  IF Len(GroupRows(rows, gs[k])) < MinSamples THEN before
             ELSE IF \E i \in DOMAIN before : before[i] = key THEN before
             ELSE Append(before, key)

\* group_key.split('_', 1) of a key that contains '_'.
split_once(group_key) ==
    LET i == CHOOSE j \in DOMAIN group_key :
                 /\ group_key[j] = "_"
                 /\ \A h \in 1..(j - 1) : group_key[h] # "_"
    IN  <<SubSeq(group_key, 1, i - 1), SubSeq(group_key, i + 1, Len(group_key))>>

\* The metrics _save_thresholds writes, in its order.
saved_metrics == <<"variance", "std", "abs_slope", "iqr">>

\* The rows _save_thresholds appends for one key.
RECURSIVE KeyRows(_, _, _)
KeyRows(group_key, t, k) ==
    IF k = 0 THEN <<>>
    ELSE LET before == KeyRows(group_key, t, k - 1)
             metric == saved_metrics[k]
             min_key == "min_" \o metric
             max_key == "max_" \o metric
             parts == split_once(group_key)
         IN  IF min_key \in DOMAIN t /\ max_key \in DOMAIN t
             THEN Append(before, [ofp |-> parts[1], test_case |-> parts[2],
                                  metric |-> metric, min_threshold |-> t[min_key],
                                  max_threshold |-> t[max_key]])
             ELSE before

\* thresh_data after the first k keys of the mapping.
RECURSIVE save_thresholds(_, _, _)
save_thresholds(dyn, keys, k) ==
    IF k = 0 THEN <<>>
    ELSE save_thresholds(dyn, keys, k - 1)
         \o KeyRows(keys[k], dyn[keys[k]], Len(saved_metrics))

\* Three steady-state records of one group, two at level v and one at w.
ThreeOf(g, v, w) ==
    <<BaselineRecord(g, "Steady State", v), BaselineRecord(g, "Steady State", v),
      BaselineRecord(g, "Steady State", w)>>

SaveInit ==
    /\ pc = "collect"
    /\ steady_state_thresholds = FixedSet
    /\ baseline_metrics \in
           { ThreeOf(g1, v1, w1) \o ThreeOf(g2, v2, w2) :
               g1 \in GroupSet, g2 \in GroupSet,
               v1 \in {0, Step}, w1 \in {0, Step}, v2 \in {0, Step}, w2 \in {0, Step} }
    /\ steady_df = <<>>
    /\ dynamic_thresholds = NoThresholds
    /\ arg = NoArg
    /\ rec = <<>>
    /\ rec_clean = <<>>
    /\ IdleEval
    /\ IdlePipe
    /\ IdleFlip
    /\ IdlePlots
    /\ IdleSheet

\* _save_thresholds(dynamic_thresholds, data_folder): dynamic_thresholds.csv
\* is written unless thresh_data is empty.
SaveThresholds ==
    /\ pc = "built"
    /\ LET gs == SortedGroups(steady_df)
           keys == InsertedKeys(steady_df, gs, Len(gs))
           thresh_data == save_thresholds(dynamic_thresholds, keys, Len(keys))
       IN  written' = IF thresh_data # <<>> THEN <<thresh_data>> ELSE written
    /\ pc' = "saved"
    /\ UNCHANGED <<steady_state_thresholds, evalVars, buildVars, pipeVars,
                   parquet, df, sorted_df, flips, summary, error>>
    /\ UNCHANGED <<plotVars, sheetVars>>

SaveNext == Build \/ SaveThresholds

SpecSave == SaveInit /\ [][SaveNext]_vars

(***************************************************************************)
(* Plot names (efficiencyp2.py: _create_flagged_plots and                  *)
(* _generate_plot_name; yup.py: _generate_flagged_plots holds the same     *)
(* code inline).  Names are sequences of one-character strings.            *)
(***************************************************************************)
MaxPlots == 3     \* most tuples in flagged_files

\* str.replace(old, new), old not empty.
RECURSIVE Replace(_, _, _)
Replace(s, old, new) ==
    IF Len(s) < Len(old) THEN s
    ELSE IF SubSeq(s, 1, Len(old)) = old
         THEN new \o Replace(SubSeq(s, Len(old) + 1, Len(s)), old, new)
         ELSE <<Head(s)>> \o Replace(Tail(s), old, new)

\* str(n) of a natural number.
DigitChar(d) == <<"0", "1", "2", "3", "4", "5", "6", "7", "8", "9">>[d + 1]

RECURSIVE IntToStr(_)
IntToStr(n) ==
    IF n < 10 THEN <<DigitChar(n)>>
    ELSE IntToStr(n \div 10) \o <<DigitChar(n % 10)>>

\* grouping.get(key, 'NA')
GetOrNA(grouping, key) ==
    IF key \in DOMAIN grouping THEN grouping[key] ELSE <<"N", "A">>

\* dc_name = voltage_col.replace("voltage_28v_", "").replace("_cal", "")
dc_name(voltage_col) ==
    Replace(Replace(voltage_col, <<"v", "o", "l", "t", "a", "g", "e", "_", "2", "8", "v", "_">>, <<>>), <<"_", "c", "a", "l">>, <<>>)

base_name(voltage_col, grouping) ==
    GetOrNA(grouping, "unit_id") \o <<"_">>
    \o GetOrNA(grouping, "test_case") \o <<"_">>
    \o GetOrNA(grouping, "save") \o <<"_">>
    \o GetOrNA(grouping, "station") \o <<"_">>
    \o <<"r", "u", "n">> \o GetOrNA(grouping, "test_run") \o <<"_">>
    \o dc_name(voltage_col)

\* _generate_plot_name: the name it returns and plot_counter after the call.
generate_plot_name(voltage_col, grouping, counter) ==
    LET base == base_name(voltage_col, grouping)
    IN  IF base \in DOMAIN counter
        THEN [name |-> base \o <<"_">> \o IntToStr(counter[base] + 1) \o <<".", "p", "n", "g">>,
              counter |-> [counter EXCEPT ![base] = @ + 1]]
        ELSE [name |-> base \o <<".", "p", "n", "g">>,
              counter |-> [b \in DOMAIN counter \cup {base} |->
                              IF b = base THEN 0 ELSE counter[b]]]

(***************************************************************************)
(* SpecPlots: one call of _create_flagged_plots on at most MaxPlots tuples *)
(***************************************************************************)
VoltageDc1 == <<"v", "o", "l", "t", "a", "g", "e", "_", "2", "8", "v", "_", "d", "c", "1", "_", "c", "a", "l">>
VoltageOne == <<"v", "o", "l", "t", "a", "g", "e", "_", "2", "8", "v", "_", "1", "_", "c", "a", "l">>

Grouping(test_run) ==
    [k \in {"unit_id", "test_case", "save", "station", "test_run"} |->
        IF k = "test_run" THEN test_run
        ELSE IF k = "unit_id" THEN <<"U">>
        ELSE IF k = "test_case" THEN <<"T">>
        ELSE IF k = "save" THEN <<"S">>
        ELSE <<"X">>]

\* A grouping without test_run.
GroupingNoRun == [k \in {"unit_id", "test_case", "save", "station"} |-> Grouping(<<>>)[k]]

PlotKinds ==
    { [voltage_col |-> v, grouping |-> g] :
        v \in {VoltageDc1, VoltageOne},
        g \in {Grouping(<<"5">>), Grouping(<<"5", "_", "1">>), GroupingNoRun} }

PlotInit ==
    /\ pc = "plots"
    /\ steady_state_thresholds = FixedSet
    /\ flagged_plots \in UNION { [1..n -> PlotKinds] : n \in 0..MaxPlots }
    /\ plot_idx = 1
    /\ plot_counter = [b \in {} |-> 0]
    /\ plot_names = <<>>
    /\ IdleEval
    /\ IdleBuild
    /\ IdlePipe
    /\ IdleFlip
    /\ IdleSheet

\* One iteration of the loop of _create_flagged_plots.
GeneratePlot ==
    /\ pc = "plots"
    /\ plot_idx <= Len(flagged_plots)
    /\ LET res == generate_plot_name(flagged_plots[plot_idx].voltage_col,
                                     flagged_plots[plot_idx].grouping, plot_counter)
       IN  /\ plot_names' = Append(plot_names, res.name)
           /\ plot_counter' = res.counter
    /\ plot_idx' = plot_idx + 1
    /\ UNCHANGED <<pc, steady_state_thresholds, evalVars, buildVars, pipeVars,
                   flipVars, flagged_plots, sheetVars>>

PlotsNext == GeneratePlot

SpecPlots == PlotInit /\ [][PlotsNext]_vars

(***************************************************************************)
(* analyze_excel_27t (27tttt.py): the loop over the rows of the sheet, for *)
(* the gaps over 2 s and the segment analysis.  A row is given by what     *)
(* parse_27t_message and parse_segment return for it; gaps and timestamps  *)
(* are whole seconds; all rows belong to one station and save.             *)
(***************************************************************************)
MaxRows == 2      \* most rows of the sheet

\* if gap > 2.0
GapLimit == 2
\* time_from_segment_start <= 30
StartWindow == 30

\* list.index(x): the position of the first element equal to x.
index_of(q, x) == CHOOSE j \in DOMAIN q : q[j] = x /\ \A h \in 1..(j - 1) : q[h] # x

violation_entry(gap, gap_timestamp, segment_start) ==
    [gap |-> gap, timestamp |-> gap_timestamp, segment_start |-> segment_start,
     time_from_start |-> gap_timestamp - segment_start,
     within_30s |-> gap_timestamp - segment_start <= StartWindow]

\* The state of the accumulators after the first k gaps of a row.
RECURSIVE GapLoop(_, _, _)
GapLoop(row, acc, k) ==
    IF k = 0 THEN acc
    ELSE LET before == GapLoop(row, acc, k - 1)
             gap == row.gaps[k]
         IN  IF ~(gap > GapLimit) THEN before
             ELSE LET over == [before EXCEPT !.gaps_over_2s = Append(@, gap)]
                  IN  IF row.segment_start = <<>> \/ Len(row.timestamps) = 0 THEN over
                      ELSE LET gap_idx == index_of(row.gaps, gap)
                           IN  IF ~(gap_idx <= Len(row.timestamps)) THEN over
                               ELSE LET e == violation_entry(gap, row.timestamps[gap_idx],
                                                             row.segment_start[1])
                                    IN  [gaps_over_2s |-> over.gaps_over_2s,
                                         segment_violations |->
                                             Append(over.segment_violations, e),
                                         within_30s_of_start |->
                                             IF e.within_30s
                                             THEN Append(over.within_30s_of_start, e)
                                             ELSE over.within_30s_of_start,
                                         outside_30s_of_start |->
                                             IF e.within_30s
                                             THEN over.outside_30s_of_start
                                             ELSE Append(over.outside_30s_of_start, e),
                                         total_violations |-> over.total_violations + 1]

(***************************************************************************)
(* SpecSheet: one call of analyze_excel_27t on at most MaxRows rows        *)
(***************************************************************************)
SheetRow(has_data, gaps, timestamps, segment_start) ==
    [has_data |-> has_data, gaps |-> gaps, timestamps |-> timestamps,
     segment_start |-> segment_start]

\* Rows: without fault counts; one gap over 2 s near the segment start; the
\* same gap twice; a small gap and a late large one; more gaps than
\* timestamps; the same gap twice with one timestamp; no segment; no
\* timestamps.
RowKinds ==
    { SheetRow(FALSE, <<3>>, <<10>>, <<0>>),
      SheetRow(TRUE, <<3>>, <<10>>, <<0>>),
      SheetRow(TRUE, <<3, 3>>, <<10, 50>>, <<0>>),
      SheetRow(TRUE, <<1, 4>>, <<10, 50>>, <<0>>),
      SheetRow(TRUE, <<3, 4>>, <<10>>, <<0>>),
      SheetRow(TRUE, <<3, 3>>, <<10>>, <<0>>),
      SheetRow(TRUE, <<3>>, <<10>>, <<>>),
      SheetRow(TRUE, <<3>>, <<>>, <<0>>) }

SheetInit ==
    /\ pc = "rows"
    /\ steady_state_thresholds = FixedSet
    /\ sheet \in UNION { [1..n -> RowKinds] : n \in 0..MaxRows }
    /\ row_idx = 1
    /\ gaps_over_2s = <<>>
    /\ segment_violations = <<>>
    /\ segment_analysis = NoSegmentAnalysis
    /\ IdleEval
    /\ IdleBuild
    /\ IdlePipe
    /\ IdleFlip
    /\ IdlePlots

\* One iteration of the loop over df.iterrows().
AnalyzeRow ==
    /\ pc = "rows"
    /\ row_idx <= Len(sheet)
    /\ LET row == sheet[row_idx]
           acc == [gaps_over_2s |-> gaps_over_2s,
                   segment_violations |-> segment_violations,
                   within_30s_of_start |-> segment_analysis.within_30s_of_start,
                   outside_30s_of_start |-> segment_analysis.outside_30s_of_start,
                   total_violations |-> segment_analysis.total_violations]
           after == IF ~row.has_data THEN acc ELSE GapLoop(row, acc, Len(row.gaps))
       IN  /\ gaps_over_2s' = after.gaps_over_2s
           /\ segment_violations' = after.segment_violations
           /\ segment_analysis' =
                  [within_30s_of_start |-> after.within_30s_of_start,
                   outside_30s_of_start |-> after.outside_30s_of_start,
                   total_violations |-> after.total_violations]
    /\ row_idx' = row_idx + 1
    /\ UNCHANGED <<pc, steady_state_thresholds, evalVars, buildVars, pipeVars,
                   flipVars, plotVars, sheet>>

\* The end of the loop: analyze_excel_27t returns results.
ReturnResults ==
    /\ pc = "rows"
    /\ row_idx > Len(sheet)
    /\ pc' = "returned"
    /\ UNCHANGED <<steady_state_thresholds, evalVars, buildVars, pipeVars,
                   flipVars, plotVars, sheetVars>>

SheetNext == AnalyzeRow \/ ReturnResults

SpecSheet == SheetInit /\ [][SheetNext]_vars

(***************************************************************************)
(* Properties of the evaluator (SpecEval)                                  *)
(***************************************************************************)
\* Some entry of the loop's list names the metric.
HasFailed(metric_label) ==
    \E i \in 1..Len(failed) : failed[i].metric = metric_label

\* C1: in dynamic mode and in fixed mode alike, the list of reasons an
\* evaluation returns is empty or has exactly four entries (then it is the
\* list of the four failures); a list of one, two or three failures is never
\* returned.
ReasonsEmptyOrFour ==
    pc \in {"dynamic", "fixed"} =>
        /\ Len(reasons) \in {0, 4}
        /\ reasons # <<>> <=> Len(failed) = 4
        /\ reasons # <<>> => reasons = failed

\* C1, its case: some but not all metrics failed and nothing was returned.
PartialFailureWithheld ==
    /\ pc = "dynamic"
    /\ Len(failed) \in 1..3
    /\ reasons = <<>>

\* The metrics check_dynamic_thresholds reads and the bounds it reads for each.
DynamicBounds ==
    { [value |-> "variance", label |-> "Variance",
       lo |-> "min_variance", hi |-> "max_variance"],
      [value |-> "std", label |-> "Std", lo |-> "min_std", hi |-> "max_std"],
      [value |-> "slope", label |-> "Slope", lo |-> "min_slope", hi |-> "max_slope"],
      [value |-> "iqr", label |-> "IQR", lo |-> "min_iqr", hi |-> "max_iqr"] }

\* C7: in dynamic mode a metric fails exactly when both of its bounds are
\* present and its value, rounded to four decimals, is strictly below the
\* rounded minimum or strictly above the rounded maximum; a metric with a
\* bound absent is skipped and does not fail.
DynamicFailsIffRoundedOutside ==
    pc = "dynamic" =>
        \A b \in DynamicBounds :
            HasFailed(b.label) <=>
                /\ b.lo \in DOMAIN thresholds
                /\ b.hi \in DOMAIN thresholds
                /\ \/ Round4(metrics[b.value]) < Round4(thresholds[b.lo])
                   \/ Round4(metrics[b.value]) > Round4(thresholds[b.hi])

\* C7, its case: std is above max_std but min_std is absent, so Std is
\* skipped; iqr is above max_iqr before rounding and equal to it after, so
\* IQR passes; Variance fails.
SkippedAndRoundedEqual ==
    /\ pc = "dynamic"
    /\ "min_std" \notin DOMAIN thresholds
    /\ metrics["std"] > thresholds["max_std"]
    /\ ~HasFailed("Std")
    /\ metrics["iqr"] > thresholds["max_iqr"]
    /\ Round4(metrics["iqr"]) = Round4(thresholds["max_iqr"])
    /\ ~HasFailed("IQR")
    /\ HasFailed("Variance")

\* C8: in fixed mode a metric fails exactly when its value exceeds its fixed
\* maximum (max_iqr is 1.0 when not configured), no lower bound is applied,
\* and reasons are returned exactly when all four metrics exceed their maxima.
FixedFailsIffAboveMaximum ==
    pc = "fixed" =>
        LET sst == steady_state_thresholds
            max_iqr == IF "max_iqr" \in DOMAIN sst THEN sst["max_iqr"] ELSE One
            over == [Variance |-> metrics["variance"] > sst["max_variance"],
                     Std |-> metrics["std"] > sst["max_std"],
                     Slope |-> metrics["abs_slope"] > sst["max_slope"],
                     IQR |-> metrics["iqr"] > max_iqr]
        IN  /\ \A l \in DOMAIN over : HasFailed(l) <=> over[l]
            /\ reasons # <<>> <=> \A l \in DOMAIN over : over[l]

\* C8, its case: all four metrics exceed their maxima, the IQR one being
\* the default 1.0, and the four reasons are returned.
FixedAllFourExceed ==
    /\ pc = "fixed"
    /\ "max_iqr" \notin DOMAIN steady_state_thresholds
    /\ metrics["iqr"] > One
    /\ Len(reasons) = 4

(***************************************************************************)
(* Properties of the builder and of evaluation on what it derives          *)
(* (SpecBuild)                                                             *)
(***************************************************************************)
\* The value is outside [lo, hi] as check_threshold compares them.
RoundedOutside(value, lo, hi) ==
    Round4(value) < Round4(lo) \/ Round4(value) > Round4(hi)

\* C2: a record evaluated against the ThresholdSet the builder derived for
\* its group, with variance, std, slope and iqr all outside their [min, max]
\* bounds, gets exactly four reasons.
AllFourOutsideGivesFourReasons ==
    (/\ pc = "checked"
     /\ \A metric \in BuilderMetrics :
            RoundedOutside(metrics[metric], thresholds["min_" \o metric],
                           thresholds["max_" \o metric])
     /\ RoundedOutside(metrics["slope"], thresholds["min_abs_slope"],
                       thresholds["max_abs_slope"]))
    => Len(reasons) = 4

\* The metrics of the evaluated record all exceed the fixed maxima.
ExceedsFixed(m, sst) ==
    /\ m["variance"] > sst["max_variance"]
    /\ m["std"] > sst["max_std"]
    /\ m["abs_slope"] > sst["max_slope"]
    /\ m["iqr"] > sst["max_iqr"]

\* C3: a steady-state record whose group has no dynamic ThresholdSet is
\* evaluated against the fixed thresholds: it is flagged exactly when all
\* four of its metrics exceed the fixed maxima.
MissingGroupFallsBackToFixed ==
    (/\ pc = "processed"
     /\ arg.n_valid > 0
     /\ IsSteadyStateLabel(arg.label)
     /\ GroupKey(arg.ofp, arg.test_case) \notin DOMAIN dynamic_thresholds)
    => (rec[1].flagged <=> ExceedsFixed(arg.m, steady_state_thresholds))

\* C4: after the builder has run, a group of the baseline list has an entry
\* in the mapping exactly when it has at least three steady-state records.
EntryIffThreeSteadyRecords ==
    pc = "built" =>
        \A g \in GroupsOf(baseline_metrics) :
            GroupKey(g[1], g[2]) \in DOMAIN dynamic_thresholds
                <=> Len(GroupRows(steady_df, g)) >= MinSamples

\* C5: every ThresholdSet of the mapping belongs to a group with at least
\* three steady-state rows, and for each tracked metric of it, with mean the
\* group's mean and h = max - mean: h is half the sample standard deviation
\* (to the fine unit), min is mean - h clamped at 0, and 0 <= min <= mean <= max.
ThresholdsAroundMean ==
    pc = "built" =>
        \A k \in DOMAIN dynamic_thresholds :
            \E g \in GroupsOf(steady_df) :
                LET group == GroupRows(steady_df, g)
                    e == dynamic_thresholds[k]
                    n == Len(group)
                IN  /\ GroupKey(g[1], g[2]) = k
                    /\ n >= MinSamples
                    /\ \A metric \in BuilderMetrics :
                        LET s == ColSum(group, metric)
                            q == ColSumSq(group, metric)
                            mean == s \div n
                            v == (n * q - s * s) \div (n * (n - 1))
                            hi == e["max_" \o metric]
                            lo == e["min_" \o metric]
                            h == hi - mean
                        IN  /\ h >= 0
                            /\ (2 * h) * (2 * h) <= v
                            /\ v < (2 * h + 2) * (2 * h + 2)
                            /\ lo = (IF mean - h >= 0 THEN mean - h ELSE 0)
                            /\ 0 <= lo /\ lo <= mean /\ mean <= hi

\* C5, its case: a group whose mean - 0.5 * std is negative; its minimum is
\* clamped to 0 and its maximum is above the mean.
MinimumClampedAtZero ==
    /\ pc = "built"
    /\ \E g \in GroupsOf(steady_df) :
        LET group == GroupRows(steady_df, g)
            k == GroupKey(g[1], g[2])
        IN  /\ Len(group) >= MinSamples
            /\ k \in DOMAIN dynamic_thresholds
            /\ ColMean(group, "variance") - (ColStd(group, "variance") \div 2) < 0
            /\ dynamic_thresholds[k]["min_variance"] = 0
            /\ dynamic_thresholds[k]["max_variance"] > ColMean(group, "variance")

\* C6: the record of a group's own per-metric means, evaluated against the
\* ThresholdSet derived from that group, has no failing metric and gets no
\* reasons: each mean, rounded, lies within the rounded [min, max].
MeanRecordNeverFlagged ==
    pc = "checked_mean" =>
        /\ reasons = <<>>
        /\ failed = <<>>
        /\ \A metric \in BuilderMetrics :
            ~RoundedOutside(metrics[metric], thresholds["min_" \o metric],
                            thresholds["max_" \o metric])

\* C6, its case: the mean record of a group with spread, strictly inside
\* its bounds.
MeanStrictlyInside ==
    /\ pc = "checked_mean"
    /\ thresholds["min_variance"] < metrics["variance"]
    /\ metrics["variance"] < thresholds["max_variance"]
    /\ reasons = <<>>

\* C10: the rows the builder derives thresholds from are the baseline
\* records carrying the label whose records process_label_metrics evaluates
\* against thresholds.
BaselineSetIsEvaluatedLabel ==
    pc = "built" =>
        steady_df = SelectSeq(baseline_metrics, LAMBDA r : IsSteadyStateLabel(r.label))

(***************************************************************************)
(* Properties of the pipeline (Spec)                                       *)
(***************************************************************************)
\* The run's records of the flagging pass hold a flagged steady-state
\* record, steady-state being the label process_label_metrics evaluates.
HasFlaggedSteadyRecord(run) ==
    LET file_results == AnalyzeGroup(run, dynamic_thresholds, steady_state_thresholds)
    IN  \E i \in DOMAIN file_results :
            IsSteadyStateLabel(file_results[i].label) /\ file_results[i].flagged

\* C9: once the flagging pass is over, a run that was processed is among
\* the flagged files exactly when at least one of its steady-state records
\* is flagged.
RunFlaggedIffSteadyRecordFlagged ==
    (pc = "done" /\ baseline_metrics # <<>>) =>
        \A i \in DOMAIN data :
            "flagging" \notin data[i].raises =>
                ((\E j \in DOMAIN flagged_files : flagged_files[j] = i)
                    <=> HasFlaggedSteadyRecord(data[i]))

\* The runs among the first k of the input for which analyze_group does not
\* raise in the pass.
RunsNotRaising(pass, k) ==
    SelectSeq(SubSeq(data, 1, k), LAMBDA run : pass \notin run.raises)

\* The rows of the runs, one run after the other.
RECURSIVE RowsOf(_, _)
RowsOf(runs, dyn) ==
    IF runs = <<>> THEN <<>>
    ELSE AnalyzeGroup(Head(runs), dyn, steady_state_thresholds)
         \o RowsOf(Tail(runs), dyn)

\* C11: at every point of either pass, the rows collected so far are the
\* rows of the visited runs for which analyze_group did not raise, as if the
\* raising runs were absent from the input; no raising run is among the
\* flagged files; and each pass visits every run before it ends.
RaisingRunSkipped ==
    /\ pc = "baseline" =>
           baseline_metrics = RowsOf(RunsNotRaising("baseline", idx - 1), NoThresholds)
    /\ pc = "flagging" =>
           all_results = RowsOf(RunsNotRaising("flagging", idx - 1), dynamic_thresholds)
    /\ pc \in {"flagging", "done"} =>
           baseline_metrics = RowsOf(RunsNotRaising("baseline", Len(data)), NoThresholds)
    /\ (pc = "done" /\ baseline_metrics # <<>>) =>
           all_results = RowsOf(RunsNotRaising("flagging", Len(data)), dynamic_thresholds)
    /\ \A j \in DOMAIN flagged_files : "flagging" \notin data[flagged_files[j]].raises

\* C11, its case: analyze_group raised for a run in the flagging pass only,
\* a later run contributed rows, and the pass has ended.
LaterRunKeptAfterRaise ==
    /\ pc = "done"
    /\ \E i \in DOMAIN data, j \in DOMAIN data :
        /\ i < j
        /\ data[i].raises = {"flagging"}
        /\ data[j].raises = {}
        /\ AnalyzeGroup(data[j], dynamic_thresholds, steady_state_thresholds) # <<>>
    /\ all_results # <<>>

(***************************************************************************)
(* Properties of process_label_metrics (SpecBuild)                         *)
(***************************************************************************)
\* The record carries no flag.
Unflagged(r) == ~r.flagged /\ r.flags = "" /\ r.flag_reasons = <<>>

\* C17: a record process_label_metrics returns for a label other than
\* 'steady_state' is not flagged (flagged false, flags '', flag_reasons ''),
\* whatever its metrics and whatever thresholds exist; the same for the
\* process_label_metrics of clean.py.
OtherLabelNeverFlagged ==
    (pc = "processed" /\ arg.label # "steady_state") =>
        /\ rec # <<>> => Unflagged(rec[1])
        /\ rec_clean # <<>> => Unflagged(rec_clean[1])

\* C17, its case: in fixed mode a 'Stabilizing' record whose four metrics
\* all exceed the fixed maxima is returned unflagged.
StabilizingAboveMaximaUnflagged ==
    /\ pc = "processed"
    /\ arg.label = "Stabilizing"
    /\ DOMAIN dynamic_thresholds = {}
    /\ ExceedsFixed(arg.m, steady_state_thresholds)
    /\ rec # <<>>
    /\ ~rec[1].flagged

\* C18: process_label_metrics returns None exactly when the label has no
\* non-missing voltage value; otherwise it returns one record, which
\* carries the requested label; the same for the one of clean.py.
NoneIffNoValues ==
    pc = "processed" =>
        /\ rec = <<>> <=> arg.n_valid = 0
        /\ rec_clean = <<>> <=> arg.n_valid = 0
        /\ rec # <<>> => Len(rec) = 1 /\ rec[1].label = arg.label
        /\ rec_clean # <<>> => Len(rec_clean) = 1 /\ rec_clean[1].label = arg.label

\* C18, its case: the steady-state label without values gave None.
SteadyLabelWithoutValues ==
    /\ pc = "processed"
    /\ arg.label = "steady_state"
    /\ arg.n_valid = 0
    /\ rec = <<>>

(***************************************************************************)
(* Further properties of the pipeline (Spec)                               *)
(***************************************************************************)
\* C19: no record of the baseline pass has had thresholds evaluated on it:
\* none carries a flag or reasons.
BaselineWithoutThresholds ==
    \A i \in DOMAIN baseline_metrics : Unflagged(baseline_metrics[i])

Range(q) == { q[i] : i \in DOMAIN q }

\* The rows of a list, each with the number of times it occurs.
BagOf(q) == [x \in Range(q) |-> Cardinality({ i \in DOMAIN q : q[i] = x })]

RunOrders(n) == { f \in [1..n -> 1..n] : \A i, j \in 1..n : f[i] = f[j] => i = j }

\* The runs of the input in the order f, without those raising in the pass.
Reordered(f, pass) ==
    SelectSeq([k \in DOMAIN data |-> data[f[k]]], LAMBDA run : pass \notin run.raises)

\* The runs the flagging pass reports when it meets the runs in the order f.
FlaggedIn(f, dyn) ==
    { f[k] : k \in { k \in DOMAIN data :
                       /\ "flagging" \notin data[f[k]].raises
                       /\ has_flagged_steady_state(
                              AnalyzeGroup(data[f[k]], dyn, steady_state_thresholds)) } }

AdjacentCandidate(d, i) ==
    /\ i >= 2
    /\ d[i].bus # d[i - 1].bus
    /\ d[i].timestamp - d[i - 1].timestamp < 100
    /\ d[i].decoded_description = d[i - 1].decoded_description

\* The k-th smallest element of a set of numbers.
NthOf(S, k) == CHOOSE x \in S : Cardinality({ y \in S : y <= x }) = k

\* C12: the sorted frame is the group's rows in ascending timestamp order,
\* and the FlipRecords returned are, in order, one for each row i >= 2 that
\* differs from row i - 1 in the bus, follows it by strictly less than
\* 100 ms, has the same decoded description, and for which both rows pass
\* the DC-state check; so none for a gap of 100 ms or more, none for rows
\* that are not adjacent, none in a group of fewer than two rows.
FlipIffAdjacentPairQualifies ==
    pc = "group_done" =>
        LET d == sorted_df[1]
            columns == df[1].columns
            Q == { i \in 2..Len(d) :
                     /\ AdjacentCandidate(d, i)
                     /\ check_dc_states(d[i - 1], columns)
                     /\ check_dc_states(d[i], columns) }
        IN  /\ BagOf(d) = BagOf(df[1].rows)
            /\ \A i \in 1..(Len(d) - 1) : d[i].timestamp <= d[i + 1].timestamp
            /\ Len(flips) = Cardinality(Q)
            /\ Len(d) < 2 => flips = <<>>
            /\ \A k \in DOMAIN flips :
                LET i == NthOf(Q, k)
                IN  /\ flips[k].timestamp_diff_ms = d[i].timestamp - d[i - 1].timestamp
                    /\ flips[k].timestamp_diff_ms < 100
                    /\ flips[k].decoded_description = d[i].decoded_description
                    /\ flips[k].bus_transition = <<d[i - 1].bus, " to ", d[i].bus>>

\* C12, its case: three rows within 100 ms with one description, the first
\* two on one bus and the third on the other: the first and the third are a
\* bus change within 100 ms but are not adjacent, and one flip is returned.
OnlyAdjacentPairCounted ==
    /\ pc = "group_done"
    /\ Len(sorted_df[1]) = 3
    /\ LET d == sorted_df[1]
       IN  /\ d[1].bus = d[2].bus
           /\ d[1].bus # d[3].bus
           /\ d[3].timestamp - d[1].timestamp < 100
           /\ d[1].decoded_description = d[3].decoded_description
           /\ d[2].decoded_description = d[3].decoded_description
    /\ "dc1_state" \notin df[1].columns
    /\ "dc2_state" \notin df[1].columns
    /\ Len(flips) = 1

\* The raw DC states of the model that are one of 1, true, on, yes when
\* case and surrounding whitespace are ignored.
RawActive == {DcOne, DcYes, DcOn}

\* The DC-state gate of a row.
DcGate(row, columns) ==
    \/ columns \cap {"dc1_state", "dc2_state"} = {}
    \/ "dc1_state" \in columns /\ row.dc1_state \in RawActive
    \/ "dc2_state" \in columns /\ row.dc2_state \in RawActive

\* C13: of the adjacent pairs that qualify by bus, time and description,
\* exactly those are returned as flips in which both rows pass the DC gate:
\* with neither DC column every row passes, otherwise a row passes when at
\* least one DC column that exists holds an active token.
DcGateOnBothRows ==
    pc = "group_done" =>
        LET d == sorted_df[1]
            columns == df[1].columns
        IN  /\ Len(flips) =
                   Cardinality({ i \in 2..Len(d) :
                                   /\ AdjacentCandidate(d, i)
                                   /\ DcGate(d[i - 1], columns)
                                   /\ DcGate(d[i], columns) })
            /\ \A i \in DOMAIN d : check_dc_states(d[i], columns) <=> DcGate(d[i], columns)

\* C13, its case: both DC columns exist, the current row is active only
\* through dc2_state ('On'), and the pair is returned as a flip.
ActiveThroughSecondColumn ==
    /\ pc = "group_done"
    /\ {"dc1_state", "dc2_state"} \subseteq df[1].columns
    /\ Len(sorted_df[1]) = 2
    /\ sorted_df[1][2].dc1_state = DcOff
    /\ sorted_df[1][2].dc2_state = DcOn
    /\ Len(flips) = 1

\* C14: every FlipRecord belongs to an adjacent pair of the sorted frame
\* whose buses are A and B: its bus_transition is '<predecessor bus> to
\* <current bus>', its timestamp_busA is the timestamp of the row of the
\* pair on bus A and its timestamp_busB that of the row on bus B.
TimestampsBucketedByBus ==
    pc = "group_done" =>
        \A k \in DOMAIN flips :
            \E i \in 2..Len(sorted_df[1]) :
                LET prev_row == sorted_df[1][i - 1]
                    curr_row == sorted_df[1][i]
                IN  /\ AdjacentCandidate(sorted_df[1], i)
                    /\ flips[k].bus_transition = <<prev_row.bus, " to ", curr_row.bus>>
                    /\ \A e \in {prev_row, curr_row} :
                        /\ e.bus = "A" => flips[k].timestamp_busA = e.timestamp
                        /\ e.bus = "B" => flips[k].timestamp_busB = e.timestamp

\* C14, its case: a flip from B to A, the A timestamp being the later one.
FlipFromBToA ==
    /\ pc = "group_done"
    /\ \E k \in DOMAIN flips :
        /\ flips[k].bus_transition = <<"B", " to ", "A">>
        /\ flips[k].timestamp_busA > flips[k].timestamp_busB

(***************************************************************************)
(* Properties of the detector object (SpecFlip)                            *)
(***************************************************************************)
RECURSIVE SumOfCounts(_, _)
SumOfCounts(s, k) == IF k = 0 THEN 0 ELSE SumOfCounts(s, k - 1) + s[k].flip_count

FlipsOfKey(key) == { i \in DOMAIN flips : GroupKeyOf(flips[i]) = key }

\* C15: the summary that get_summary (alone or inside run) returned has
\* exactly one row for each (unit, station, save) with at least one
\* FlipRecord and no other row, each flip_count is the number of FlipRecords
\* of that group, the rows are in non-increasing order of flip_count, the
\* flip_counts add up to the number of flips, and with no flips the summary
\* is empty.
SummaryCountsFlipsPerGroup ==
    (pc \in {"get_summary", "run"} /\ error = NoError) =>
        LET s == summary[1]
        IN  /\ \A i \in DOMAIN flips :
                Cardinality({ k \in DOMAIN s : GroupKeyOf(s[k]) = GroupKeyOf(flips[i]) }) = 1
            /\ \A k \in DOMAIN s :
                /\ s[k].flip_count >= 1
                /\ s[k].flip_count = Cardinality(FlipsOfKey(GroupKeyOf(s[k])))
            /\ \A k \in 1..(Len(s) - 1) : s[k].flip_count >= s[k + 1].flip_count
            /\ SumOfCounts(s, Len(s)) = Len(flips)
            /\ flips = <<>> => s = <<>>

\* C15, its case: unit 1 has one flip and unit 2 has two, and the summary
\* lists unit 2 first.
LargerCountListedFirst ==
    /\ pc = "get_summary"
    /\ Len(flips) = 3
    /\ Len(summary[1]) = 2
    /\ summary[1][1].unit_id = 2
    /\ summary[1][1].flip_count = 2
    /\ summary[1][2].unit_id = 1
    /\ summary[1][2].flip_count = 1

\* C16: a call of run on a stored table that lacks required columns raises
\* the 'Missing required columns' ValueError, which names each missing
\* required column once and no other column; the call runs no detection and
\* writes no file, and flips is empty after it.
RunRejectsMissingColumns ==
    [][(pc' = "run" /\ RequiredSet \ parquet.columns # {}) =>
          /\ error'.type = "ValueError"
          /\ error'.message = "Missing required columns: "
          /\ { error'.columns[i] : i \in DOMAIN error'.columns }
                = RequiredSet \ parquet.columns
          /\ Len(error'.columns) = Cardinality(RequiredSet \ parquet.columns)
          /\ UNCHANGED <<sorted_df, flips, written>>
          /\ flips' = <<>>
          /\ written' = <<>>]_vars

\* C16, its case: run has failed on a table of two rows without the bus and
\* timestamp columns.
RunFailedNamingTwoColumns ==
    /\ pc = "run"
    /\ Len(parquet.rows) = 2
    /\ error = MissingColumns(<<"bus", "timestamp">>)
    /\ flips = <<>>
    /\ written = <<>>

\* C23: a call of detect_all_flips while no data is loaded raises the 'Data
\* not loaded' ValueError and leaves flips as it was, and no call changes
\* flips unless data is loaded when it returns.
DetectBeforeLoadRaises ==
    [][/\ (pc' = "detect_all_flips" /\ df = <<>>) =>
             (error' = DataNotLoaded /\ flips' = flips /\ df' = <<>>)
       /\ flips' # flips => df' # <<>>]_vars

\* C23, its case: detect_all_flips was called on a new detector whose stored
\* table holds a flip, and it raised.
DetectRaisedOnNewDetector ==
    /\ pc = "detect_all_flips"
    /\ df = <<>>
    /\ error = DataNotLoaded
    /\ flips = <<>>
    /\ parquet.columns = RequiredSet
    /\ Len(parquet.rows) = 2
    /\ time_diff_ms(parquet.rows[1], parquet.rows[2]) = Tick

\* The flips of the detection that produced the sorted frames sorted_df.
FirstDetection ==
    all_flips(groupby_keys(df[1].rows), sorted_df, df[1].columns, Len(sorted_df))

\* C29: once detect_all_flips has run on the loaded data, flips is the result
\* of that first call after every later call (a call replaces the list, it
\* does not append to it), and every later get_summary returns the counts of
\* that result.
DetectAllFlipsIdempotent ==
    [][sorted_df # <<>> =>
          /\ flips = FirstDetection
          /\ flips' = flips
          /\ pc' = "get_summary" =>
                Range(summary'[1]) = Range(groupby_size(FirstDetection))]_vars

\* C29, its case: detect_all_flips has just returned three flips in two
\* groups, one of them with tied timestamps, and is called again.
DetectedTwice ==
    /\ pc = "detect_all_flips"
    /\ error = NoError
    /\ Len(flips) = 3
    /\ Len(sorted_df) = 2
    /\ \E i \in 1..2 : sorted_df[1][i].timestamp = sorted_df[1][i + 1].timestamp
    /\ ENABLED (DetectAllFlips /\ flips' = flips)

\* C30: after load_data has failed for missing columns the detector holds no
\* data (df is None), and a call of detect_all_flips that follows raises the
\* 'Data not loaded' ValueError and runs no detection.
FailedLoadLeavesNotLoaded ==
    [][(pc = "load_data" /\ error.message = "Missing required columns: ") =>
          /\ df = <<>>
          /\ pc' = "detect_all_flips" =>
                (error' = DataNotLoaded /\ sorted_df' = sorted_df)]_vars

\* C28: the set of FlipRecords that detect_flips_for_group returned for a
\* group is the set it returns for every order in which the rows of the
\* group can reach it, rows with equal timestamps included.
FlipsSameForEveryOrder ==
    pc = "group_done" =>
        \A d \in sort_values(df[1].rows) :
            Range(detect_flips_for_group(d, df[1].columns, 1, 1, 1)) = Range(flips)

\* C21: every step of run_analysis keeps the order of the stages. The
\* baseline pass ends only after its last run; the thresholds are derived
\* in the step that ends it, from the baseline records of every run; a run
\* is evaluated in the flagging pass, and results or flagged files change,
\* only with those thresholds in place; and when the baseline pass ends
\* without records the call returns with no thresholds derived, no run
\* evaluated in a flagging pass and no output written.
StagesInOrder ==
    [][LET whole == RowsOf(RunsNotRaising("baseline", Len(data)), NoThresholds)
       IN  /\ pc' # pc =>
                 /\ <<pc, pc'>> \in {<<"baseline", "flagging">>, <<"baseline", "done">>,
                                     <<"flagging", "done">>}
                 /\ idx > Len(data)
           /\ (pc = "baseline" /\ pc' = "flagging") =>
                 /\ whole # <<>>
                 /\ dynamic_thresholds' = calculate_dynamic_thresholds(whole)
                 /\ all_results' = <<>>
           /\ (pc = "baseline" /\ pc' = "baseline") =>
                 UNCHANGED <<dynamic_thresholds, all_results, flagged_files, written>>
           /\ (all_results' # all_results \/ flagged_files' # flagged_files
                \/ written' # written \/ (pc = "flagging" /\ idx' # idx)) =>
                 /\ pc = "flagging"
                 /\ dynamic_thresholds = calculate_dynamic_thresholds(whole)
           /\ (pc = "baseline" /\ idx > Len(data) /\ baseline_metrics = <<>>) =>
                 /\ pc' = "done"
                 /\ dynamic_thresholds' = NoThresholds
                 /\ all_results' = <<>>
                 /\ flagged_files' = <<>>
                 /\ written' = <<>>]_vars

\* C21, its case: the flagging pass has evaluated a run against thresholds
\* derived from the steady-state records of three runs.
FlaggingAfterWholeBaseline ==
    /\ pc = "flagging"
    /\ idx = 2
    /\ Len(data) = 3
    /\ DOMAIN dynamic_thresholds # {}
    /\ all_results # <<>>

\* C22: in dynamic mode and in fixed mode alike, a metric that failed a
\* bound differs from that bound after both are rounded to 4 decimal places:
\* the rounded value is above the rounded maximum it failed, or below the
\* rounded minimum it failed.
RoundedBeforeCompared ==
    pc \in {"dynamic", "fixed"} =>
        \A i \in DOMAIN failed :
            /\ failed[i].cmp = ">" => failed[i].value > failed[i].bound
            /\ failed[i].cmp = "<" => failed[i].value < failed[i].bound

\* C26: every record process_label_metrics returned (efficiency.py's and
\* clean.py's) has flagged true exactly when flags is
\* 'all_thresholds_failed' and exactly when flag_reasons is not empty, flags
\* is '' otherwise, and a flagged record has the label 'steady_state' and
\* four reasons, one for each of Variance, Std, Slope and IQR; the flagged
\* record of efficiency.py in fixed mode has each of variance, std,
\* abs_slope and iqr above its fixed maximum.
FlagFieldsConsistent ==
    pc = "processed" =>
        /\ \A r \in Range(rec) \cup Range(rec_clean) :
            /\ r.flagged <=> r.flags = "all_thresholds_failed"
            /\ r.flagged <=> r.flag_reasons # <<>>
            /\ r.flags \in {"", "all_thresholds_failed"}
            /\ r.flagged =>
                  /\ r.label = "steady_state"
                  /\ [i \in DOMAIN r.flag_reasons |-> r.flag_reasons[i].metric]
                        = <<"Variance", "Std", "Slope", "IQR">>
        /\ \A r \in Range(rec) :
            (r.flagged /\ DOMAIN dynamic_thresholds = {}) =>
                /\ r.variance > steady_state_thresholds["max_variance"]
                /\ r.std > steady_state_thresholds["max_std"]
                /\ r.abs_slope > steady_state_thresholds["max_slope"]
                /\ r.iqr > steady_state_thresholds["max_iqr"]
        /\ \A r \in Range(rec) :
            (r.flagged /\ DOMAIN dynamic_thresholds # {}) =>
                \A i \in DOMAIN r.flag_reasons :
                    /\ r.flag_reasons[i].cmp = ">" =>
                          r.flag_reasons[i].value > r.flag_reasons[i].bound
                    /\ r.flag_reasons[i].cmp = "<" =>
                          r.flag_reasons[i].value < r.flag_reasons[i].bound

\* C26, its case: a steady_state record came back flagged with four reasons.
FlaggedRecordReturned ==
    /\ pc = "processed"
    /\ rec # <<>>
    /\ rec[1].flagged
    /\ rec[1].flags = "all_thresholds_failed"
    /\ Len(rec[1].flag_reasons) = 4

(***************************************************************************)
(* Properties of the threshold table (SpecSave)                            *)
(***************************************************************************)
\* C27: after the builder and the table writer have run, every group with at
\* least three steady-state records has its own ThresholdSet in the mapping
\* (the one computed from its rows, and no other group's entry is the same
\* entry), the table has rows carrying that group's ofp and test_case, and
\* every row of the table carries the ofp and test_case of such a group.
GroupsKeptApartAndRecovered ==
    pc = "saved" =>
        LET big == { g \in GroupsOf(steady_df) :
                       Len(GroupRows(steady_df, g)) >= MinSamples }
        IN  /\ \A g \in big :
                /\ GroupKey(g[1], g[2]) \in DOMAIN dynamic_thresholds
                /\ dynamic_thresholds[GroupKey(g[1], g[2])]
                      = compute_metric_thresholds(GroupRows(steady_df, g))
                /\ \E i \in DOMAIN written[1] :
                      <<written[1][i].ofp, written[1][i].test_case>> = g
            /\ Cardinality(DOMAIN dynamic_thresholds) = Cardinality(big)
            /\ \A i \in DOMAIN written[1] :
                  <<written[1][i].ofp, written[1][i].test_case>> \in big

(***************************************************************************)
(* Properties of the plot names (SpecPlots)                                *)
(***************************************************************************)
\* C24: at every point of one call of _create_flagged_plots, no two of the
\* plot names generated so far are equal.
PlotNamesUnique ==
    \A i \in DOMAIN plot_names, j \in DOMAIN plot_names :
        i # j => plot_names[i] # plot_names[j]

(***************************************************************************)
(* Properties of the segment analysis (SpecSheet)                          *)
(***************************************************************************)
\* The violations a row gives when each gap over 2 s is paired with the
\* timestamp at the gap's own position, up to position k.
RECURSIVE PairedByPosition(_, _)
PairedByPosition(row, k) ==
    IF k = 0 THEN <<>>
    ELSE IF /\ row.has_data
            /\ row.gaps[k] > 2
            /\ row.segment_start # <<>>
            /\ k <= Len(row.timestamps)
         THEN Append(PairedByPosition(row, k - 1),
                     [gap |-> row.gaps[k], timestamp |-> row.timestamps[k]])
         ELSE PairedByPosition(row, k - 1)

RECURSIVE PairedInRows(_, _)
PairedInRows(rows, n) ==
    IF n = 0 THEN <<>>
    ELSE PairedInRows(rows, n - 1) \o PairedByPosition(rows[n], Len(rows[n].gaps))

\* C25: at every point of the loop, the violations recorded for the rows
\* done so far are, in order, the gaps over 2 s of those rows, each with the
\* timestamp that has the gap's position in the row's timestamps, and
\* total_violations is the number of entries of within_30s_of_start plus
\* that of outside_30s_of_start.
GapPairedWithItsTimestamp ==
    /\ [i \in DOMAIN segment_violations |->
           [gap |-> segment_violations[i].gap,
            timestamp |-> segment_violations[i].timestamp]]
          = PairedInRows(sheet, row_idx - 1)
    /\ segment_analysis.total_violations
          = Len(segment_analysis.within_30s_of_start)
            + Len(segment_analysis.outside_30s_of_start)

====
